---- MODULE Spec2Model ----
(***************************************************************************)
(* A model of two subsystems of rspamd:                                    *)
(*   src/src/libutil/mem_pool.c     the region allocator (pool)            *)
(*   src/src/libutil/map_helpers.c  the key/value list parser and the      *)
(*                                  hash, radix and regexp map helpers     *)
(* Every subsystem has its own specification over its own variables; the   *)
(* variables of the other subsystems stay at their initial values.         *)
(***************************************************************************)
EXTENDS Integers, Sequences, FiniteSets, TLC

VARIABLES
    \* ---- mem_pool.c: one pool and its destructor queue
    pool_alive,     \* FALSE once rspamd_mempool_delete has freed the pool
    destructors,    \* pool->destructors: GArray of struct _pool_destructors
    invoked,        \* log of the calls destructor->func (destructor->data)
    registered,     \* history: every entry ever appended, with its latest data
    replaced,       \* history: the last entry rewritten, with its old and new data
    \* ---- map_helpers.c: rspamd_parse_kv_list and its caller
    input,          \* the bytes the fetcher is going to deliver
    delivered,      \* how many bytes of input have been handed over so far
    chunks,         \* history: the sizes of the chunks delivered so far
    pstate,         \* data->state
    tail,           \* the bytes from the returned pointer to the chunk's end
    insertions,     \* the calls func (data->cur_data, key, value), in order
    p_ret,          \* history: the last call's chunk length and returned pointer
    \* ---- map_helpers.c: hash map helper
    ht,             \* struct rspamd_hash_map_helper
    ht_log,         \* history: the pairs handed to the insert function
    ht_last,        \* history: the last operation and what it returned
    \* ---- map_helpers.c: two streams feeding two hash maps the same keys
    stA, stB,       \* struct rspamd_hash_map_helper of stream A / stream B
    st_keys,        \* history: the keys handed to both insert callbacks
    st_fin,         \* the digests published by rspamd_kv_list_fin
    \* ---- map_helpers.c: regexp map helper
    re_map,         \* struct rspamd_regexp_map_helper
    re_recs,        \* the struct rspamd_map_helper_value records in its pool
    re_last,        \* history: the last query and what it returned
    \* ---- map_helpers.c: radix map helper
    rx,             \* struct rspamd_radix_map_helper
    rx_recs,        \* the struct rspamd_map_helper_value records in its pool
    rx_log,         \* history: the prefixes handed to the trie, in order
    rx_last,         \* history: the last lookup and what it returned
    \* ---- map_helpers.c: the generations of one map (read, fin, dtor)
    gens,           \* every index ever created for the map, in order
    cb,             \* struct map_cb_data (cur_data, prev_data) of the stream
    target,         \* *target: the index published to the queries
    map_nelts,      \* data->map->nelts
    gen_last,        \* history: the last callback and what it did
    \* ---- mem_pool.c: one pool, its slab chains and the allocator's counters
    apool,          \* rspamd_mempool_t: elt_len, pools[], trash_stack, ...
    aenv,           \* always_malloc and the size of struct _pool_chain
    astat,          \* mem_pool_stat and the current slot of pool->entry
    handed,         \* history: the bytes handed out, by class and by source
    a_last,          \* history: the last operation and the pool before it
    a_hist,         \* history: the regions handed out from the slabs, the calls made
    \* ---- mem_pool.c: one row of the entry-point statistics
    entry,          \* struct rspamd_mempool_entry_point
    entry_obs,      \* the observations the pools of this site produce
    e_last,          \* history: adjustments made, and the last one
    \* ---- mem_pool.c: one emulated mutex shared by several processes
    mtx,            \* rspamd_mempool_mutex_t: lock, owner, spin
    mpc,            \* where each process is in lock_mutex / unlock_mutex
    malive,         \* the processes that have not died
    mdone,           \* how many times each process has taken the mutex
    \* ---- mem_pool.c: one emulated rwlock shared by several processes
    rwl,            \* rspamd_mempool_rwlock_t: __r_lock and __w_lock
    rwpc,            \* where each process is in the rwlock functions
    \* ---- map_helpers.c: query calls that pass a null pointer
    nq_last,         \* the last such call and what it did
    \* ---- mem_pool.c: one pool, its variables and its destructor queue
    vpool,          \* rspamd_mempool_t: variables, destructors
    v_calls,        \* history: the calls of set_variable and remove_variable
    v_invoked,      \* log of the calls destructor->func (destructor->data)
    v_last          \* history: the last operation and what it returned

poolVars   == <<pool_alive, destructors, invoked, registered, replaced>>
parserVars == <<input, delivered, chunks, pstate, tail, insertions, p_ret>>
hashVars   == <<ht, ht_log, ht_last>>
streamVars == <<stA, stB, st_keys, st_fin>>
reVars     == <<re_map, re_recs, re_last>>
radixVars  == <<rx, rx_recs, rx_log, rx_last>>
genVars    == <<gens, cb, target, map_nelts, gen_last>>
allocVars  == <<apool, aenv, astat, handed, a_last, a_hist>>
entryVars  == <<entry, entry_obs, e_last>>
mutexVars  == <<mtx, mpc, malive, mdone>>
rwVars     == <<rwl, rwpc>>
nullVars   == <<nq_last>>
varVars    == <<vpool, v_calls, v_invoked, v_last>>
vars == <<poolVars, parserVars, hashVars, streamVars, reVars, radixVars
        , genVars, allocVars, entryVars, mutexVars, rwVars, nullVars
        , varVars>>

\* A null pointer, and the absence of a result.
NULL == 0

(***************************************************************************)
(* Bounds of the model.                                                    *)
(***************************************************************************)
MaxDtors == 3       \* destructor entries registered on the pool
MaxInputLen == 4    \* bytes of an input of the parser (the scenarios aside)
MaxInserts == 3     \* pairs handed to an insert function
MaxHits == 3        \* hits counted by one map
MaxPatterns == 2    \* patterns of a regexp map
MaxReHits == 1      \* hits counted by a regexp map before its last query
MaxCidrKeys == 2    \* keys handed to a radix map
MaxRxHits == 1      \* hits counted by a radix map before its last lookup
MaxGens == 3        \* indexes created for one map
MaxReads == 2       \* read calls of one stream
MaxGenHits == 2     \* hits counted by one index of the map
MaxAllocs == 4      \* allocations made from one pool
MaxCleanups == 1    \* calls of rspamd_mempool_cleanup_tmp on one pool
MaxAdjusts == 2     \* adjustments of one entry-point row
MaxLocks == 1       \* times one process takes the mutex
MaxDeaths == 1      \* processes that die
MaxVarCalls == 3    \* calls of set_variable and remove_variable on one pool
MaxRwDeaths == 1    \* processes that die holding the rwlock
MaxPools == 1       \* pools created one after the other

(***************************************************************************)
(* mem_pool.c: the destructor queue.                                       *)
(***************************************************************************)
\* The destructor functions and the data pointers of the callers.
DtorFuncs == {"f", "g"}
DtorData  == {NULL, 1, 2}

\* The loop of rspamd_mempool_destructors_enforce and rspamd_mempool_delete:
\* the calls made for a queue, in order, skipping entries with NULL data.
RECURSIVE call_destructors(_)
call_destructors(q) ==
    IF q = <<>> THEN <<>>
    ELSE (IF Head(q).data # NULL THEN <<Head(q)>> ELSE <<>>)
         \o call_destructors(Tail(q))

\* The calls of one run of that loop, each tagged with the operation `by'
\* that made it.
destructor_calls(q, by) ==
    LET cs == call_destructors(q)
    IN  [i \in 1..Len(cs) |-> [entry |-> cs[i], by |-> by]]

\* The index of the first entry with (func, data), 0 when there is none.
find_destructor(q, func, data) ==
    LET hits == {i \in 1..Len(q) : q[i].func = func /\ q[i].data = data}
    IN  IF hits = {} THEN 0 ELSE CHOOSE i \in hits : \A j \in hits : i <= j

\* No entry has been rewritten.
none_replaced == [id |-> 0, old_data |-> NULL, new_data |-> NULL]

PoolIdle ==
    /\ pool_alive = FALSE
    /\ destructors = <<>>
    /\ invoked = <<>>
    /\ registered = <<>>
    /\ replaced = none_replaced

PoolInit ==
    /\ pool_alive = TRUE
    /\ destructors = <<>>
    /\ invoked = <<>>
    /\ registered = <<>>
    /\ replaced = none_replaced

rspamd_mempool_add_destructor_full(func, data) ==
    /\ pool_alive
    /\ Len(registered) < MaxDtors
    /\ LET cur == [func |-> func, data |-> data, id |-> Len(registered) + 1]
       IN  /\ destructors' = Append(destructors, cur)
           /\ registered' = Append(registered, cur)
    /\ UNCHANGED <<pool_alive, invoked, replaced>>

\* A slip: every entry that matches is rewritten, not the first only.
rspamd_mempool_replace_destructor_all(func, old_data, new_data) ==
    /\ pool_alive
    /\ LET i == find_destructor(destructors, func, old_data)
           hit(d) == d.func = func /\ d.data = old_data
       IN  IF i = 0
           THEN UNCHANGED <<destructors, registered, replaced>>
           ELSE /\ destructors' =
                      [j \in 1..Len(destructors) |->
                          IF hit(destructors[j])
                          THEN [destructors[j] EXCEPT !.data = new_data]
                          ELSE destructors[j]]
                /\ registered' =
                      [j \in 1..Len(registered) |->
                          IF \E k \in 1..Len(destructors) :
                                destructors[k].id = j /\ hit(destructors[k])
                          THEN [registered[j] EXCEPT !.data = new_data]
                          ELSE registered[j]]
                /\ replaced' = [id |-> destructors[i].id,
                                old_data |-> old_data, new_data |-> new_data]
    /\ UNCHANGED <<pool_alive, invoked>>

rspamd_mempool_replace_destructor(func, old_data, new_data) ==
    /\ pool_alive
    /\ LET i == find_destructor(destructors, func, old_data)
       IN  IF i = 0
           THEN UNCHANGED <<destructors, registered, replaced>>
           ELSE /\ destructors' =
                      [destructors EXCEPT ![i].data = new_data]
                /\ registered' =
                      [registered EXCEPT ![destructors[i].id].data = new_data]
                /\ replaced' = [id |-> destructors[i].id,
                                old_data |-> old_data, new_data |-> new_data]
    /\ UNCHANGED <<pool_alive, invoked>>

\* A slip: the queue is not truncated after the destructors have run.
rspamd_mempool_destructors_enforce_keep ==
    /\ pool_alive
    /\ invoked' = invoked \o destructor_calls(destructors, "enforce")
    /\ UNCHANGED <<destructors, pool_alive, registered, replaced>>

rspamd_mempool_destructors_enforce ==
    /\ pool_alive
    /\ invoked' = invoked \o destructor_calls(destructors, "enforce")
    /\ destructors' = <<>>
    /\ UNCHANGED <<pool_alive, registered, replaced>>

rspamd_mempool_delete ==
    /\ pool_alive
    /\ invoked' = invoked \o destructor_calls(destructors, "delete")
    /\ destructors' = <<>>
    /\ pool_alive' = FALSE
    /\ UNCHANGED <<registered, replaced>>

PoolNext ==
    \/ \E func \in DtorFuncs, data \in DtorData :
          rspamd_mempool_add_destructor_full(func, data)
    \/ \E func \in DtorFuncs, old_data \in DtorData, new_data \in DtorData :
          rspamd_mempool_replace_destructor(func, old_data, new_data)
    \/ rspamd_mempool_destructors_enforce
    \/ rspamd_mempool_delete


(***************************************************************************)
(* map_helpers.c: rspamd_parse_kv_list.                                    *)
(* A chunk is a sequence of bytes, a byte a one-character string.  The     *)
(* pointers c and p are positions 1..Len(chunk)+1 in the chunk, the last   *)
(* being `end'.                                                            *)
(***************************************************************************)
\* g_ascii_isspace
g_ascii_isspace(ch) == ch \in {" ", "\t", "\n", "\r", "\f"}

\* g_strstrip: the text without its leading and trailing white space.
RECURSIVE g_strstrip(_)
g_strstrip(s) ==
    IF s = <<>> THEN s
    ELSE IF g_ascii_isspace(Head(s)) THEN g_strstrip(Tail(s))
    ELSE IF g_ascii_isspace(s[Len(s)]) THEN g_strstrip(SubSeq(s, 1, Len(s) - 1))
    ELSE s

\* The first loop of MAP_STORE_KEY / MAP_STORE_VALUE: c after the white
\* space at the front of [c, p) has been skipped.
RECURSIVE skip_leading(_, _, _)
skip_leading(chunk, c, p) ==
    IF p > c /\ g_ascii_isspace(chunk[c]) THEN skip_leading(chunk, c + 1, p)
    ELSE c

\* A slip: c is left behind the byte that ended the text.
MAP_STORE_past(chunk, c, p) ==
    [c |-> p + 1, text |-> g_strstrip(SubSeq(chunk, c, p - 1))]

\* MAP_STORE_KEY and MAP_STORE_VALUE (the two macros have the same body): the
\* new c and the text stored.
MAP_STORE(chunk, c, p) ==
    LET c1 == skip_leading(chunk, c, p)
    IN  [c |-> c1, text |-> g_strstrip(SubSeq(chunk, c1, p - 1))]

\* The value of the local `key' while no key is stored.
NoKey == <<"(null)">>

\* func (data->cur_data, key, value), as the call the parser makes.
kv(key, value) == [key |-> key, value |-> value]

\* One iteration of the loop `while (p < end)' for the locals and data->state
\* in s = [c, p, key, state, ins, abort].
parse_step(chunk, s, default_value) ==
    LET ch == chunk[s.p]
        c == s.c
        p == s.p
        st == MAP_STORE(chunk, c, p)
        eol == ch \in {"\r", "\n"}
    IN
    CASE s.state = "map_skip_spaces_before_key" ->
           IF g_ascii_isspace(ch) THEN [s EXCEPT !.p = p + 1]
           ELSE IF ch = "\"" THEN
               [s EXCEPT !.p = p + 1, !.c = p + 1, !.state = "map_read_key_quoted"]
           ELSE IF ch = "/" THEN
               [s EXCEPT !.c = p, !.p = p + 1, !.state = "map_read_key_slashed"]
           ELSE [s EXCEPT !.c = p, !.state = "map_read_key"]
      [] s.state = "map_read_key" ->
           IF ch = "#" /\ (p = c \/ chunk[p - 1] # "\\") THEN
               IF p - c > 0
               THEN [s EXCEPT !.c = st.c, !.key = NoKey,
                              !.ins = Append(@, kv(st.text, default_value)),
                              !.state = "map_read_comment_start"]
               ELSE [s EXCEPT !.key = NoKey, !.state = "map_read_comment_start"]
           ELSE IF eol THEN
               IF p - c > 0
               THEN [s EXCEPT !.c = st.c, !.key = NoKey,
                              !.ins = Append(@, kv(st.text, default_value)),
                              !.state = "map_read_eol"]
               ELSE [s EXCEPT !.key = NoKey, !.state = "map_read_eol"]
           ELSE IF g_ascii_isspace(ch) THEN
               IF p - c > 0
               THEN [s EXCEPT !.c = st.c, !.key = st.text,
                              !.state = "map_skip_spaces_after_key"]
               ELSE [s EXCEPT !.state = "map_skip_comment"]
           ELSE [s EXCEPT !.p = p + 1]
      [] s.state = "map_read_key_quoted" ->
           IF ch = "\\" THEN
               [s EXCEPT !.state = "map_backslash_quoted", !.p = p + 1]
           ELSE IF ch = "\"" THEN
               IF p - c >= 0
               THEN [s EXCEPT !.c = st.c, !.key = st.text, !.p = p + 1,
                              !.state = "map_skip_spaces_after_key"]
               ELSE [s EXCEPT !.abort = TRUE]
           ELSE [s EXCEPT !.p = p + 1]
      [] s.state = "map_read_key_slashed" ->
           IF ch = "\\" THEN
               [s EXCEPT !.state = "map_backslash_slashed", !.p = p + 1]
           ELSE IF ch = "/" THEN
               IF p - c >= 0
               THEN [s EXCEPT !.state = "map_read_key_after_slash"]
               ELSE [s EXCEPT !.abort = TRUE]
           ELSE [s EXCEPT !.p = p + 1]
      [] s.state = "map_read_key_after_slash" ->
           IF ch = "#" THEN
               IF p - c > 0
               THEN [s EXCEPT !.c = st.c, !.key = NoKey,
                              !.ins = Append(@, kv(st.text, default_value)),
                              !.state = "map_read_comment_start"]
               ELSE [s EXCEPT !.state = "map_read_comment_start"]
           ELSE IF eol THEN
               IF p - c > 0
               THEN [s EXCEPT !.c = st.c, !.key = NoKey,
                              !.ins = Append(@, kv(st.text, default_value)),
                              !.state = "map_read_eol"]
               ELSE [s EXCEPT !.key = NoKey, !.state = "map_read_eol"]
           ELSE IF g_ascii_isspace(ch) THEN
               IF p - c > 0
               THEN [s EXCEPT !.c = st.c, !.key = st.text,
                              !.state = "map_skip_spaces_after_key"]
               ELSE [s EXCEPT !.state = "map_skip_comment"]
           ELSE [s EXCEPT !.p = p + 1]
      [] s.state = "map_backslash_quoted" ->
           [s EXCEPT !.p = p + 1, !.state = "map_read_key_quoted"]
      [] s.state = "map_backslash_slashed" ->
           [s EXCEPT !.p = p + 1, !.state = "map_read_key_slashed"]
      [] s.state = "map_skip_spaces_after_key" ->
           IF ch = " " \/ ch = "\t" THEN [s EXCEPT !.p = p + 1]
           ELSE [s EXCEPT !.c = p, !.state = "map_read_value"]
      [] s.state = "map_read_value" ->
           IF s.key = NoKey THEN [s EXCEPT !.state = "map_skip_comment"]
           ELSE IF ch = "#" \/ eol THEN
               LET next == IF ch = "#" THEN "map_read_comment_start"
                           ELSE "map_read_eol"
               IN  IF p - c > 0
                   THEN [s EXCEPT !.c = st.c, !.key = NoKey,
                                  !.ins = Append(@, kv(s.key, st.text)),
                                  !.state = next]
                   ELSE [s EXCEPT !.key = NoKey,
                                  !.ins = Append(@, kv(s.key, default_value)),
                                  !.state = next]
           ELSE [s EXCEPT !.p = p + 1]
      [] s.state = "map_read_comment_start" ->
           IF ch = "#"
           THEN [s EXCEPT !.state = "map_skip_comment", !.p = p + 1, !.key = NoKey]
           ELSE [s EXCEPT !.abort = TRUE]
      [] s.state = "map_skip_comment" ->
           IF eol THEN [s EXCEPT !.state = "map_read_eol"]
           ELSE [s EXCEPT !.p = p + 1]
      [] s.state = "map_read_eol" ->
           IF eol THEN [s EXCEPT !.p = p + 1]
           ELSE [s EXCEPT !.state = "map_skip_spaces_before_key"]
      [] OTHER -> [s EXCEPT !.abort = TRUE]

\* The loop `while (p < end)'.
RECURSIVE parse_loop(_, _, _)
parse_loop(chunk, s, default_value) ==
    IF s.abort \/ s.p > Len(chunk) THEN s
    ELSE parse_loop(chunk, parse_step(chunk, s, default_value), default_value)

\* The block `if (final)': the state after the loop is examined.
parse_final(chunk, s, default_value) ==
    LET st == MAP_STORE(chunk, s.c, s.p)
        s1 ==
          IF s.state = "map_read_key" /\ s.p - s.c > 0 THEN
              [s EXCEPT !.c = st.c, !.key = NoKey,
                        !.ins = Append(@, kv(st.text, default_value))]
          ELSE IF s.state = "map_read_value" /\ s.key # NoKey THEN
              IF s.p - s.c > 0
              THEN [s EXCEPT !.c = st.c, !.key = NoKey,
                             !.ins = Append(@, kv(s.key, st.text))]
              ELSE [s EXCEPT !.key = NoKey,
                             !.ins = Append(@, kv(s.key, default_value))]
          ELSE s
    IN  [s1 EXCEPT !.state = "map_skip_spaces_before_key"]

\* One call: the locals at `return c', data->state included.
rspamd_parse_kv_list(chunk, state, default_value, final) ==
    LET s0 == [c |-> 1, p |-> 1, key |-> NoKey, state |-> state,
               ins |-> <<>>, abort |-> FALSE]
        s1 == parse_loop(chunk, s0, default_value)
    IN  IF final /\ ~s1.abort THEN parse_final(chunk, s1, default_value)
        ELSE s1


(***************************************************************************)
(* The caller of the read callback: it delivers the input in chunks, in    *)
(* order, and puts the bytes from the returned pointer on in front of the  *)
(* next chunk; final is set on the call that delivers the last byte.       *)
(***************************************************************************)
\* The caller-supplied default value (hash_fill).
default_value == <<"1">>

\* The bytes of the bounded inputs.
Alphabet == {"a", " ", "\n", "#", "\"", "/", "\\", "\f"}

\* All byte strings of length 0..n.
RECURSIVE StringsUpTo(_)
StringsUpTo(n) ==
    IF n = 0 THEN {<<>>}
    ELSE LET shorter == StringsUpTo(n - 1)
         IN  shorter \cup {Append(s, ch) : s \in shorter, ch \in Alphabet}

\* "he\"llo" world LF, to be split after `wor'.
ResumeInput ==
    <<"\"", "h", "e", "\\", "\"", "l", "l", "o", "\"", " ",
      "w", "o", "r", "l", "d", "\n">>
ResumeSplit == <<13, 3>>

\* Inputs that end, without a newline, with a key or a key and value in
\* flight, and the one insertion each is to give.
InFlight ==
    { [in |-> <<"a", "a">>,                 out |-> kv(<<"a", "a">>, default_value)],
      [in |-> <<"a", " ", " ">>,            out |-> kv(<<"a">>, default_value)],
      [in |-> <<"\"", "a", "\"">>,          out |-> kv(<<"a">>, default_value)],
      [in |-> <<"/", "a", "/">>,            out |-> kv(<<"/", "a", "/">>, default_value)],
      [in |-> <<"/", "a", "/", "a">>,       out |-> kv(<<"/", "a", "/", "a">>, default_value)],
      [in |-> <<"a", " ", "a", "a">>,       out |-> kv(<<"a">>, <<"a", "a">>)] }

Inputs == (StringsUpTo(MaxInputLen) \ {<<>>}) \cup {ResumeInput}

\* No call has returned yet.
no_return == [c |-> 1, len |-> 0, abort |-> FALSE]

ParserIdle ==
    /\ input = <<>>
    /\ delivered = 0
    /\ chunks = <<>>
    /\ pstate = "map_skip_spaces_before_key"
    /\ tail = <<>>
    /\ insertions = <<>>
    /\ p_ret = no_return

ParserInit ==
    /\ input \in Inputs
    /\ delivered = 0
    /\ chunks = <<>>
    /\ pstate = "map_skip_spaces_before_key"
    /\ tail = <<>>
    /\ insertions = <<>>
    /\ p_ret = no_return

\* One call of the read callback with the next n bytes of the input.
read_callback(n) ==
    /\ pstate # "aborted"
    /\ delivered + n <= Len(input)
    /\ LET chunk == tail \o SubSeq(input, delivered + 1, delivered + n)
           final == (delivered + n = Len(input))
           r == rspamd_parse_kv_list(chunk, pstate, default_value, final)
       IN  /\ pstate' = IF r.abort THEN "aborted" ELSE r.state
           /\ tail' = SubSeq(chunk, r.c, Len(chunk))
           /\ insertions' = insertions \o r.ins
           /\ p_ret' = [c |-> r.c, len |-> Len(chunk), abort |-> r.abort]
    /\ delivered' = delivered + n
    /\ chunks' = Append(chunks, n)
    /\ UNCHANGED input

ParserNext == \E n \in 1..Len(input) : read_callback(n)

\* The insertions of one call with the whole input and final = TRUE.
whole(in) ==
    rspamd_parse_kv_list(in, "map_skip_spaces_before_key", default_value, TRUE).ins


(***************************************************************************)
(* map_helpers.c: the rolling fingerprint, rspamd_cryptobox_fast_hash.     *)
(* The state is a 16-bit word and the number of bytes mixed in so far.     *)
(***************************************************************************)
\* map_hash_seed, 0xdeadbabe, cut to the 16 bits of the modelled state.
map_hash_seed == 47806

byte_code(ch) ==
    CASE ch = "a" -> 97 [] ch = "b" -> 98 [] ch = "c" -> 99
      [] ch = "A" -> 65 [] ch = "B" -> 66
      [] ch = "x" -> 120 [] ch = "y" -> 121
      [] ch = "|" -> 124 [] ch = "*" -> 42 [] ch = "(" -> 40
      [] ch = "/" -> 47 [] ch = "," -> 44
      [] ch = "0" -> 48 [] ch = "1" -> 49
      [] OTHER -> 63

rspamd_cryptobox_fast_hash_init(seed) == [h |-> seed, len |-> 0]

RECURSIVE rspamd_cryptobox_fast_hash_update(_, _)
rspamd_cryptobox_fast_hash_update(st, bytes) ==
    IF bytes = <<>> THEN st
    ELSE rspamd_cryptobox_fast_hash_update(
             [h |-> (st.h * 31 + byte_code(Head(bytes))) % (2^16),
              len |-> st.len + 1],
             Tail(bytes))

rspamd_cryptobox_fast_hash_final(st) == (st.h * 33 + st.len) % (2^16)

(***************************************************************************)
(* map_helpers.c: the hash map helper.  htb is the set of the occupied     *)
(* slots of the khash table, a slot being the stored key and the record    *)
(* (struct rspamd_map_helper_value) it points to.                          *)
(***************************************************************************)
g_ascii_tolower(ch) ==
    IF ch = "A" THEN "a" ELSE IF ch = "B" THEN "b" ELSE ch

\* rspamd_strcase_equal: equal length and equal bytes, case folded.
rspamd_strcase_equal(k1, k2) ==
    /\ Len(k1) = Len(k2)
    /\ \A i \in 1..Len(k1) : g_ascii_tolower(k1[i]) = g_ascii_tolower(k2[i])

\* kh_get: the slots whose key equals `key' (none, or exactly one).
kh_get(htb, key) == {e \in htb : rspamd_strcase_equal(e.key, key)}

\* memset of the helper to 0: the helper after its destruction, and before
\* any helper exists.
hash_helper_zero ==
    [pool |-> FALSE, htb_set |-> FALSE, htb |-> {},
     hst |-> [h |-> 0, len |-> 0]]

rspamd_map_helper_new_hash ==
    [pool |-> TRUE, htb_set |-> TRUE, htb |-> {},
     hst |-> rspamd_cryptobox_fast_hash_init(map_hash_seed)]

\* A slip: the stored value is not compared, a present key is always skipped.
rspamd_map_helper_insert_hash_skip(st, key, value) ==
    LET k == kh_get(st.htb, key)
    IN  IF k # {} THEN st
        ELSE [st EXCEPT
                !.htb = @ \cup {[key |-> key, hits |-> 0, value |-> value]},
                !.hst = rspamd_cryptobox_fast_hash_update(@, key)]

\* A slip: a present key is never skipped.
rspamd_map_helper_insert_hash_always(st, key, value) ==
    LET k == kh_get(st.htb, key)
        nk == IF k = {} THEN key ELSE (CHOOSE e \in k : TRUE).key
    IN  [st EXCEPT
            !.htb = (@ \ k) \cup {[key |-> nk, hits |-> 0, value |-> value]},
            !.hst = rspamd_cryptobox_fast_hash_update(@, nk)]

\* A slip: the value is mixed into the fingerprint instead of the key.
rspamd_map_helper_insert_hash_mixval(st, key, value) ==
    LET k == kh_get(st.htb, key)
        nk == IF k = {} THEN key ELSE (CHOOSE e \in k : TRUE).key
    IN  IF k # {} /\ (CHOOSE e \in k : TRUE).value = value THEN st
        ELSE [st EXCEPT
                !.htb = (@ \ k) \cup {[key |-> nk, hits |-> 0, value |-> value]},
                !.hst = rspamd_cryptobox_fast_hash_update(@, value)]

\* A slip: the slot takes the spelling of the key just inserted.
rspamd_map_helper_insert_hash_respell(st, key, value) ==
    LET k == kh_get(st.htb, key)
    IN  IF k # {} /\ (CHOOSE e \in k : TRUE).value = value THEN st
        ELSE [st EXCEPT
                !.htb = (@ \ k) \cup {[key |-> key, hits |-> 0, value |-> value]},
                !.hst = rspamd_cryptobox_fast_hash_update(@, key)]

\* The helper st after rspamd_map_helper_insert_hash (st, key, value).
rspamd_map_helper_insert_hash(st, key, value) ==
    LET k == kh_get(st.htb, key)
        nk == IF k = {} THEN key ELSE (CHOOSE e \in k : TRUE).key
    IN  IF k # {} /\ (CHOOSE e \in k : TRUE).value = value THEN st
        ELSE [st EXCEPT
                !.htb = (@ \ k) \cup {[key |-> nk, hits |-> 0, value |-> value]},
                !.hst = rspamd_cryptobox_fast_hash_update(@, nk)]

\* The keys and values the callers hand over.
HashKeys == {<<"a">>, <<"A">>, <<"b">>, <<"a", "b">>}
HashValues == {<<>>, <<"x">>, <<"y">>}

\* The number of hits counted by the helper's records.
RECURSIVE sum_hits(_)
sum_hits(htb) ==
    IF htb = {} THEN 0
    ELSE LET e == CHOOSE x \in htb : TRUE
         IN  e.hits + sum_hits(htb \ {e})

HashIdle == ht = hash_helper_zero /\ ht_log = <<>> /\ ht_last = [op |-> "none"]

HashInit ==
    /\ ht = rspamd_map_helper_new_hash
    /\ ht_log = <<>>
    /\ ht_last = [op |-> "new"]

insert_hash(key, value) ==
    /\ ht.pool
    /\ Len(ht_log) < MaxInserts
    /\ ht' = rspamd_map_helper_insert_hash(ht, key, value)
    /\ ht_log' = Append(ht_log, kv(key, value))
    /\ ht_last' = [op |-> "insert", key |-> key, value |-> value, before |-> ht]

\* A slip: the keys are compared byte by byte, the case not folded.
rspamd_match_hash_map_exact(in) ==
    /\ ht.pool
    /\ sum_hits(ht.htb) < MaxHits
    /\ LET k == {e \in ht.htb : e.key = in}
       IN  IF ~ht.htb_set \/ k = {}
           THEN /\ ht_last' = [op |-> "match", key |-> in, found |-> FALSE]
                /\ UNCHANGED ht
           ELSE LET val == CHOOSE e \in k : TRUE
                IN  /\ ht' = [ht EXCEPT !.htb =
                                 (@ \ k) \cup {[val EXCEPT !.hits = @ + 1]}]
                    /\ ht_last' = [op |-> "match", key |-> in, found |-> TRUE,
                                   ret |-> val.value]
    /\ UNCHANGED ht_log

rspamd_match_hash_map(in) ==
    /\ ht.pool
    /\ sum_hits(ht.htb) < MaxHits
    /\ LET k == kh_get(ht.htb, in)
       IN  IF ~ht.htb_set \/ k = {}
           THEN /\ ht_last' = [op |-> "match", key |-> in, found |-> FALSE]
                /\ UNCHANGED ht
           ELSE LET val == CHOOSE e \in k : TRUE
                IN  /\ ht' = [ht EXCEPT !.htb =
                                 (@ \ k) \cup {[val EXCEPT !.hits = @ + 1]}]
                    /\ ht_last' = [op |-> "match", key |-> in, found |-> TRUE,
                                   ret |-> val.value]
    /\ UNCHANGED ht_log

rspamd_map_helper_destroy_hash ==
    /\ ht.pool
    /\ ht' = hash_helper_zero
    /\ ht_last' = [op |-> "destroy"]
    /\ UNCHANGED ht_log

HashNext ==
    \/ \E key \in HashKeys, value \in HashValues : insert_hash(key, value)
    \/ \E in \in HashKeys : rspamd_match_hash_map(in)
    \/ rspamd_map_helper_destroy_hash

(***************************************************************************)
(* Two streams that hand the same keys, in the same order, to the insert   *)
(* callback of a hash map each, with values of their own choice, and are   *)
(* then finalized.                                                         *)
(***************************************************************************)
StreamIdle ==
    /\ stA = hash_helper_zero
    /\ stB = hash_helper_zero
    /\ st_keys = <<>>
    /\ st_fin = [done |-> FALSE]

StreamInit ==
    /\ stA = rspamd_map_helper_new_hash
    /\ stB = rspamd_map_helper_new_hash
    /\ st_keys = <<>>
    /\ st_fin = [done |-> FALSE]

stream_insert(key, valueA, valueB) ==
    /\ ~st_fin.done
    /\ Len(st_keys) < MaxInserts
    /\ stA' = rspamd_map_helper_insert_hash(stA, key, valueA)
    /\ stB' = rspamd_map_helper_insert_hash(stB, key, valueB)
    /\ st_keys' = Append(st_keys, key)
    /\ UNCHANGED st_fin

\* map->nelts and map->digest as rspamd_kv_list_fin sets them from cur_data.
rspamd_kv_list_fin(cur_data) ==
    [nelts |-> Cardinality(cur_data.htb),
     digest |-> rspamd_cryptobox_fast_hash_final(cur_data.hst)]

stream_fin ==
    /\ ~st_fin.done
    /\ st_fin' = [done |-> TRUE, A |-> rspamd_kv_list_fin(stA),
                  B |-> rspamd_kv_list_fin(stB)]
    /\ UNCHANGED <<stA, stB, st_keys>>

StreamNext ==
    \/ \E key \in HashKeys, valueA \in HashValues, valueB \in HashValues :
          stream_insert(key, valueA, valueB)
    \/ stream_fin


(***************************************************************************)
(* The regexp engine the helper consumes (rspamd_regexp_new,               *)
(* rspamd_regexp_search, rspamd_str_regexp_escape): a small engine with    *)
(* literals, `.', a postfix star, backslash escapes and top-level          *)
(* alternation; a pattern /body/flags carries its flags, u being UTF.      *)
(***************************************************************************)
\* The position of the last "/" of pattern p, 0 when it has none.
last_slash(p) ==
    LET at == {i \in 1..Len(p) : p[i] = "/"}
    IN  IF at = {} THEN 0 ELSE CHOOSE i \in at : \A k \in at : k <= i

\* The body and the flags of a pattern.
re_body(p) ==
    IF Len(p) >= 2 /\ p[1] = "/" /\ last_slash(p) > 1
    THEN SubSeq(p, 2, last_slash(p) - 1) ELSE p
re_flags(p) ==
    IF Len(p) >= 2 /\ p[1] = "/" /\ last_slash(p) > 1
    THEN {p[i] : i \in (last_slash(p) + 1)..Len(p)} ELSE {}

\* The alternatives of a body: the parts between the "|" outside escapes.
RECURSIVE re_split(_, _, _)
re_split(body, cur, acc) ==
    IF body = <<>> THEN Append(acc, cur)
    ELSE IF Head(body) = "\\" /\ Len(body) >= 2
         THEN re_split(SubSeq(body, 3, Len(body)),
                       cur \o SubSeq(body, 1, 2), acc)
    ELSE IF Head(body) = "|"
         THEN re_split(Tail(body), <<>>, Append(acc, cur))
    ELSE re_split(Tail(body), Append(cur, Head(body)), acc)

\* What re_tokens gives for an alternative that does not compile.
re_error == <<[any |-> FALSE, ch |-> "(error)", star |-> FALSE]>>

\* The tokens of an alternative, or re_error when it does not compile.
RECURSIVE re_tokens(_, _)
re_tokens(alt, acc) ==
    IF alt = <<>> THEN acc
    ELSE LET ch == Head(alt) IN
         IF ch = "\\" THEN
             IF Len(alt) < 2 THEN re_error
             ELSE re_tokens(SubSeq(alt, 3, Len(alt)),
                      Append(acc, [any |-> FALSE, ch |-> alt[2], star |-> FALSE]))
         ELSE IF ch \in {"(", ")"} THEN re_error
         ELSE IF ch = "*" THEN
             IF acc = <<>> \/ acc[Len(acc)].star THEN re_error
             ELSE re_tokens(Tail(alt), [acc EXCEPT ![Len(acc)].star = TRUE])
         ELSE re_tokens(Tail(alt),
                  Append(acc, [any |-> ch = ".", ch |-> ch, star |-> FALSE]))

\* rspamd_regexp_new: the compiled regexp, ok = FALSE when the pattern does
\* not compile.
rspamd_regexp_new(pattern) ==
    LET parts == re_split(re_body(pattern), <<>>, <<>>)
        alts == [i \in 1..Len(parts) |-> re_tokens(parts[i], <<>>)]
    IN  [ok |-> \A i \in 1..Len(alts) : alts[i] # re_error,
         pattern |-> pattern,
         alts |-> alts,
         utf |-> "u" \in re_flags(pattern)]

\* The positions at which a match of the tokens toks that starts after the
\* first i bytes of s can end.
RECURSIVE re_ends(_, _, _)
re_ends(toks, s, i) ==
    IF toks = <<>> THEN {i}
    ELSE LET t == Head(toks)
             fits == i < Len(s) /\ (t.any \/ s[i + 1] = t.ch)
         IN  IF t.star
             THEN re_ends(Tail(toks), s, i)
                  \cup (IF fits THEN re_ends(toks, s, i + 1) ELSE {})
             ELSE IF fits THEN re_ends(Tail(toks), s, i + 1) ELSE {}

\* The end offsets of the matches of re anywhere in s.
match_ends(re, s) ==
    UNION {re_ends(re.alts[a], s, i) : a \in 1..Len(re.alts), i \in 0..Len(s)}

\* rspamd_regexp_search: whether re matches in the bytes s.  In raw mode the
\* bytes are not read as UTF-8; the engine of the model matches bytes.
rspamd_regexp_search(re, s, raw) == match_ends(re, s) # {}

\* rspamd_str_regexp_escape with RSPAMD_REGEXP_ESCAPE_GLOB: `*' becomes
\* `.*', `?' becomes `.', the other special characters are escaped.
RECURSIVE rspamd_str_regexp_escape(_)
rspamd_str_regexp_escape(key) ==
    IF key = <<>> THEN <<>>
    ELSE (CASE Head(key) = "*" -> <<".", "*">>
            [] Head(key) = "?" -> <<".">>
            [] Head(key) \in {".", "(", ")", "|", "/", "\\"} -> <<"\\", Head(key)>>
            [] OTHER -> <<Head(key)>>)
         \o rspamd_str_regexp_escape(Tail(key))

\* g_utf8_validate: the byte 0xff occurs in no valid UTF-8 text.
g_utf8_validate(s) == \A i \in 1..Len(s) : s[i] # "0xff"

(***************************************************************************)
(* map_helpers.c: the regexp map helper.  re_recs is the sequence of the   *)
(* records allocated in the helper's pool; regexps[] holds compiled        *)
(* regexps, values[] and the slots of htb hold positions in re_recs.       *)
(***************************************************************************)
regexp_helper_zero ==
    [pool |-> FALSE, regexps_set |-> FALSE, regexps |-> <<>>, values |-> <<>>,
     htb |-> {}, hst |-> [h |-> 0, len |-> 0], map_flags |-> {},
     hs_db |-> FALSE, hs_scratch |-> FALSE, fin |-> FALSE]

rspamd_map_helper_new_regexp(flags) ==
    [pool |-> TRUE, regexps_set |-> TRUE, regexps |-> <<>>, values |-> <<>>,
     htb |-> {}, hst |-> rspamd_cryptobox_fast_hash_init(map_hash_seed),
     map_flags |-> flags, hs_db |-> FALSE, hs_scratch |-> FALSE, fin |-> FALSE]

\* A slip: a record is allocated and stored for a key that does not compile.
rspamd_map_helper_insert_re_record(st, recs, key, value) ==
    LET k == kh_get(st.htb, key)
        nk == IF k = {} THEN key ELSE (CHOOSE e \in k : TRUE).key
        val == Len(recs) + 1
    IN  [st |-> [st EXCEPT
                    !.htb = (@ \ k) \cup {[key |-> nk, val |-> val]},
                    !.hst = rspamd_cryptobox_fast_hash_update(@, nk)],
         recs |-> Append(recs, [hits |-> 0, key |-> nk, value |-> value])]

\* The helper and its records after rspamd_map_helper_insert_re.
rspamd_map_helper_insert_re(st, recs, key, value) ==
    LET re == IF "GLOB" \in st.map_flags
              THEN rspamd_regexp_new(rspamd_str_regexp_escape(key))
              ELSE rspamd_regexp_new(key)
        k == kh_get(st.htb, key)
        nk == IF k = {} THEN key ELSE (CHOOSE e \in k : TRUE).key
        val == Len(recs) + 1
    IN  IF ~re.ok THEN [st |-> st, recs |-> recs]
        ELSE [st |-> [st EXCEPT
                        !.htb = (@ \ k) \cup {[key |-> nk, val |-> val]},
                        !.hst = rspamd_cryptobox_fast_hash_update(@, nk),
                        !.map_flags = IF re.utf THEN @ \cup {"UTF"} ELSE @,
                        !.regexps = Append(@, re),
                        !.values = Append(@, val)],
              recs |-> Append(recs, [hits |-> 0, key |-> nk, value |-> value])]

\* Hyperscan refuses a pattern that matches the empty buffer (no
\* HS_FLAG_ALLOWEMPTY is passed): hs_compile_multi fails on such a set.
hs_compilable(regexps) ==
    \A i \in 1..Len(regexps) : 0 \notin match_ends(regexps[i], <<>>)

\* A slip: the database is kept when hs_alloc_scratch fails.
rspamd_re_map_finalize_keep(st, ssse3, compile_ok, scratch_ok) ==
    IF ~ssse3 THEN st
    ELSE IF Len(st.regexps) > 0 THEN
        IF ~(compile_ok /\ hs_compilable(st.regexps))
        THEN [st EXCEPT !.hs_db = FALSE]
        ELSE [st EXCEPT !.hs_db = TRUE, !.hs_scratch = scratch_ok]
    ELSE st

\* rspamd_re_map_finalize: the helper after it, for a CPU with or without
\* SSSE3 and the outcomes of hs_compile_multi and hs_alloc_scratch.
rspamd_re_map_finalize(st, ssse3, compile_ok, scratch_ok) ==
    IF ~ssse3 THEN st
    ELSE IF Len(st.regexps) > 0 THEN
        IF ~(compile_ok /\ hs_compilable(st.regexps))
        THEN [st EXCEPT !.hs_db = FALSE]
        ELSE IF ~scratch_ok THEN [st EXCEPT !.hs_db = FALSE]
        ELSE [st EXCEPT !.hs_db = TRUE, !.hs_scratch = TRUE]
    ELSE st

\* The patterns of the helper that match in the bytes `in'.
matching(st, in) ==
    {i \in 1..Len(st.regexps) : rspamd_regexp_search(st.regexps[i], in, FALSE)}

\* The offset at which hs_scan reports pattern i (HS_FLAG_SINGLEMATCH: once,
\* at the end of its first match).
hs_first_end(st, in, i) ==
    LET es == match_ends(st.regexps[i], in)
    IN  CHOOSE e \in es : \A f \in es : e <= f

\* The orders in which hs_scan can report the matching patterns: by end
\* offset, patterns that end at the same offset in any order.
hs_orders(st, in) ==
    LET m == matching(st, in)
    IN  {o \in [1..Cardinality(m) -> m] :
            /\ \A a, b \in 1..Cardinality(m) : a # b => o[a] # o[b]
            /\ \A a, b \in 1..Cardinality(m) :
                  a < b => hs_first_end(st, in, o[a]) <= hs_first_end(st, in, o[b])}

\* The loop of the PCRE version: the positions in regexps[] that match, in
\* insertion order.
RECURSIVE pcre_matches(_, _, _, _)
pcre_matches(st, in, raw, i) ==
    IF i > Len(st.regexps) THEN <<>>
    ELSE (IF rspamd_regexp_search(st.regexps[i], in, raw) THEN <<i>> ELSE <<>>)
         \o pcre_matches(st, in, raw, i + 1)

\* The records after val->hits ++ for each position of ids in values[].
RECURSIVE bump_hits(_, _, _)
bump_hits(recs, values, ids) ==
    IF ids = <<>> THEN recs
    ELSE bump_hits([recs EXCEPT ![values[Head(ids)]].hits = @ + 1],
                   values, Tail(ids))

\* A slip: the input is taken as validated without looking at it.
validated_unchecked(st, in) == TRUE

\* The local `validated' of the queries: the map is not UTF, or the input is
\* valid UTF-8.
validated(st, in) ==
    IF "UTF" \in st.map_flags THEN g_utf8_validate(in) ELSE TRUE

\* rspamd_map_helper_traverse_regexp with a callback that goes on to the
\* end: the calls cb (k, val->value, val->hits, cbdata), one for each slot of
\* htb.
rspamd_map_helper_traverse_regexp(st, recs) ==
    {[k |-> e.key, value |-> recs[e.val].value, hits |-> recs[e.val].hits,
      val |-> e.val] : e \in st.htb}

RegexpKeys ==
    {<<"a">>, <<"c">>, <<"a", "|", "b">>, <<"b", "*">>, <<"(">>,
     <<"/", "b", "/", "u">>}
RegexpValues == {<<"x">>, <<"y">>}
RegexpInputs ==
    {<<>>, <<"a">>, <<"b">>, <<"a", "c">>, <<"c", "a">>, <<"b", "0xff">>}

\* The number of hits counted by the records.
RECURSIVE re_hits(_)
re_hits(recs) ==
    IF recs = <<>> THEN 0 ELSE Head(recs).hits + re_hits(Tail(recs))

RegexpIdle ==
    /\ re_map = regexp_helper_zero
    /\ re_recs = <<>>
    /\ re_last = [op |-> "none"]

RegexpInit ==
    /\ \E flags \in {{}, {"GLOB"}} :
          re_map = rspamd_map_helper_new_regexp(flags)
    /\ re_recs = <<>>
    /\ re_last = [op |-> "new"]

insert_re(key, value) ==
    /\ re_map.pool /\ ~re_map.fin
    /\ Len(re_map.regexps) < MaxPatterns
    /\ LET r == rspamd_map_helper_insert_re(re_map, re_recs, key, value)
       IN  /\ re_map' = r.st
           /\ re_recs' = r.recs
           /\ re_last' = [op |-> "insert", key |-> key,
                          ok |-> r.st # re_map,
                          after_skip |-> /\ re_last.op = "insert"
                                         /\ (~re_last.ok \/ re_last.after_skip)]

rspamd_regexp_list_fin(ssse3, compile_ok, scratch_ok) ==
    /\ re_map.pool /\ ~re_map.fin
    /\ re_map' = [rspamd_re_map_finalize(re_map, ssse3, compile_ok, scratch_ok)
                    EXCEPT !.fin = TRUE]
    /\ re_last' = [op |-> "fin", nelts |-> Cardinality(re_map.htb)]
    /\ UNCHANGED re_recs

\* What a query returned: the bytes asked for, the path taken, and the
\* values returned (none: NULL was returned).
answer(op, in, path, none, ret) ==
    [op |-> op, in |-> in, path |-> path, raw |-> FALSE, none |-> none,
     ret |-> ret]

\* What the PCRE version returned, and the raw flag it gave to
\* rspamd_regexp_search.
pcre_answer(op, in, raw, none, ret) ==
    [answer(op, in, "pcre", none, ret) EXCEPT !.raw = raw]

rspamd_match_regexp_map_single(in) ==
    /\ re_map.fin
    /\ re_hits(re_recs) < MaxReHits
    /\ IF ~re_map.pool \/ Len(in) = 0 \/ ~re_map.regexps_set THEN
           /\ re_last' = answer("single", in, "guard", TRUE, <<>>)
           /\ UNCHANGED <<re_map, re_recs>>
       ELSE IF re_map.hs_db /\ re_map.hs_scratch /\ validated(re_map, in) THEN
           \E o \in hs_orders(re_map, in) :
              IF o = <<>> THEN
                  /\ re_last' = answer("single", in, "hs", TRUE, <<>>)
                  /\ UNCHANGED <<re_map, re_recs>>
              ELSE
                  /\ re_recs' = bump_hits(re_recs, re_map.values, <<o[1]>>)
                  /\ re_last' = answer("single", in, "hs", FALSE,
                                  <<re_recs[re_map.values[o[1]]].value>>)
                  /\ UNCHANGED re_map
       ELSE
           LET m == pcre_matches(re_map, in, ~validated(re_map, in), 1)
           IN  IF m = <<>> THEN
                   /\ re_last' = pcre_answer("single", in,
                                   ~validated(re_map, in), TRUE, <<>>)
                   /\ UNCHANGED <<re_map, re_recs>>
               ELSE
                   /\ re_recs' = bump_hits(re_recs, re_map.values, <<m[1]>>)
                   /\ re_last' = pcre_answer("single", in,
                                   ~validated(re_map, in), FALSE,
                                   <<re_recs[re_map.values[m[1]]].value>>)
                   /\ UNCHANGED re_map

\* The values of the records at the positions ids of values[].
values_of(ids) ==
    [n \in 1..Len(ids) |-> re_recs[re_map.values[ids[n]]].value]

\* A slip: the PCRE loop stops at the first match.
rspamd_match_regexp_map_all_first(in) ==
    /\ re_map.fin
    /\ re_hits(re_recs) < MaxReHits
    /\ IF ~re_map.pool \/ ~re_map.regexps_set \/ Len(in) = 0 THEN
           /\ re_last' = answer("all", in, "guard", TRUE, <<>>)
           /\ UNCHANGED <<re_map, re_recs>>
       ELSE IF re_map.hs_db /\ re_map.hs_scratch /\ validated(re_map, in) THEN
           \E o \in hs_orders(re_map, in) :
              /\ re_recs' = bump_hits(re_recs, re_map.values, o)
              /\ re_last' = answer("all", in, "hs", o = <<>>, values_of(o))
              /\ UNCHANGED re_map
       ELSE
           LET all == pcre_matches(re_map, in, ~validated(re_map, in), 1)
               m == IF all = <<>> THEN all ELSE <<all[1]>>
           IN  /\ re_recs' = bump_hits(re_recs, re_map.values, m)
               /\ re_last' = pcre_answer("all", in, ~validated(re_map, in),
                                          m = <<>>, values_of(m))
               /\ UNCHANGED re_map

rspamd_match_regexp_map_all(in) ==
    /\ re_map.fin
    /\ re_hits(re_recs) < MaxReHits
    /\ IF ~re_map.pool \/ ~re_map.regexps_set \/ Len(in) = 0 THEN
           /\ re_last' = answer("all", in, "guard", TRUE, <<>>)
           /\ UNCHANGED <<re_map, re_recs>>
       ELSE IF re_map.hs_db /\ re_map.hs_scratch /\ validated(re_map, in) THEN
           \E o \in hs_orders(re_map, in) :
              /\ re_recs' = bump_hits(re_recs, re_map.values, o)
              /\ re_last' = answer("all", in, "hs", o = <<>>, values_of(o))
              /\ UNCHANGED re_map
       ELSE
           LET m == pcre_matches(re_map, in, ~validated(re_map, in), 1)
           IN  /\ re_recs' = bump_hits(re_recs, re_map.values, m)
               /\ re_last' = pcre_answer("all", in, ~validated(re_map, in),
                                          m = <<>>, values_of(m))
               /\ UNCHANGED re_map

RegexpNext ==
    \/ \E key \in RegexpKeys, value \in RegexpValues : insert_re(key, value)
    \/ \E ssse3 \in BOOLEAN, compile_ok \in BOOLEAN, scratch_ok \in BOOLEAN :
          rspamd_regexp_list_fin(ssse3, compile_ok, scratch_ok)
    \/ \E in \in RegexpInputs : rspamd_match_regexp_map_single(in)
    \/ \E in \in RegexpInputs : rspamd_match_regexp_map_all(in)


(***************************************************************************)
(* The compressed radix trie the helper consumes (rspamd_radix_add_iplist, *)
(* radix_find_compressed).  An address is a sequence of bits, written in   *)
(* a key as its bits with an optional /len; the trie is the set of the     *)
(* prefixes inserted, each with the record it leads to.  The addresses of  *)
(* the model are three bits wide.                                          *)
(***************************************************************************)
Bit == {"0", "1"}

\* The number a decimal digit stands for.
digit(ch) ==
    CASE ch = "0" -> 0 [] ch = "1" -> 1 [] ch = "2" -> 2 [] ch = "3" -> 3
      [] OTHER -> 9

\* The parts of a key between its separators sep.
RECURSIVE str_split(_, _, _)
str_split(key, sep, cur) ==
    IF key = <<>> THEN <<cur>>
    ELSE IF Head(key) = sep THEN <<cur>> \o str_split(Tail(key), sep, <<>>)
    ELSE str_split(Tail(key), sep, Append(cur, Head(key)))

\* One element of an IP list: ok and the prefix (the first len bits of the
\* address; all of them when no /len is given).
parse_cidr(tok) ==
    LET parts == str_split(tok, "/", <<>>)
        bits == parts[1]
        len == IF Len(parts) = 1 THEN Len(bits)
               ELSE IF Len(parts[2]) = 1 THEN digit(parts[2][1]) ELSE 9
        ok == /\ Len(parts) <= 2
              /\ bits # <<>>
              /\ \A i \in 1..Len(bits) : bits[i] \in Bit
              /\ len <= Len(bits)
    IN  [ok |-> ok, prefix |-> IF ok THEN SubSeq(bits, 1, len) ELSE <<>>]

\* The prefixes a key gives, in the order of its list.
RECURSIVE cidr_prefixes(_)
cidr_prefixes(toks) ==
    IF toks = <<>> THEN <<>>
    ELSE (IF parse_cidr(Head(toks)).ok
          THEN <<parse_cidr(Head(toks)).prefix>> ELSE <<>>)
         \o cidr_prefixes(Tail(toks))

\* The trie after the prefixes ps have been added for record val.  A prefix
\* that is in the trie already either keeps its record or takes the new one
\* (keep_old).
RECURSIVE radix_insert_compressed(_, _, _, _)
radix_insert_compressed(trie, ps, val, keep_old) ==
    IF ps = <<>> THEN trie
    ELSE LET old == {t \in trie : t.prefix = Head(ps)}
             next == IF old # {} /\ keep_old THEN trie
                     ELSE (trie \ old) \cup {[prefix |-> Head(ps), val |-> val]}
         IN  radix_insert_compressed(next, Tail(ps), val, keep_old)

rspamd_radix_add_iplist(key, trie, val, keep_old) ==
    radix_insert_compressed(trie, cidr_prefixes(str_split(key, ",", <<>>)),
                            val, keep_old)

\* Whether the prefix p contains the address a.
contains(p, a) == Len(p) <= Len(a) /\ SubSeq(a, 1, Len(p)) = p

RADIX_NO_VALUE == NULL

\* radix_find_compressed: the record of the longest prefix of the trie that
\* contains the address, RADIX_NO_VALUE when there is none.
radix_find_compressed(trie, in) ==
    LET c == {t \in trie : contains(t.prefix, in)}
    IN  IF c = {} THEN RADIX_NO_VALUE
        ELSE (CHOOSE t \in c : \A u \in c : Len(u.prefix) <= Len(t.prefix)).val

(***************************************************************************)
(* map_helpers.c: the radix map helper.  rx_recs is the sequence of the    *)
(* records allocated in the helper's pool; the trie and the slots of htb   *)
(* hold positions in rx_recs.                                              *)
(***************************************************************************)
radix_helper_zero ==
    [pool |-> FALSE, trie_set |-> FALSE, trie |-> {}, htb |-> {},
     hst |-> [h |-> 0, len |-> 0]]

rspamd_map_helper_new_radix ==
    [pool |-> TRUE, trie_set |-> TRUE, trie |-> {}, htb |-> {},
     hst |-> rspamd_cryptobox_fast_hash_init(map_hash_seed)]

\* A slip: the value is not copied into the record.
rspamd_map_helper_insert_radix_nocopy(st, recs, key, value, keep_old) ==
    LET val == Len(recs) + 1
        k == kh_get(st.htb, key)
        nk == IF k = {} THEN key ELSE (CHOOSE e \in k : TRUE).key
    IN  [st |-> [st EXCEPT
                   !.htb = (@ \ k) \cup {[key |-> nk, val |-> val]},
                   !.trie = rspamd_radix_add_iplist(key, @, val, keep_old),
                   !.hst = rspamd_cryptobox_fast_hash_update(@, nk)],
         recs |-> Append(recs, [hits |-> 0, key |-> nk, value |-> <<>>])]

\* The helper and its records after rspamd_map_helper_insert_radix.
rspamd_map_helper_insert_radix(st, recs, key, value, keep_old) ==
    LET val == Len(recs) + 1
        k == kh_get(st.htb, key)
        nk == IF k = {} THEN key ELSE (CHOOSE e \in k : TRUE).key
    IN  [st |-> [st EXCEPT
                   !.htb = (@ \ k) \cup {[key |-> nk, val |-> val]},
                   !.trie = rspamd_radix_add_iplist(key, @, val, keep_old),
                   !.hst = rspamd_cryptobox_fast_hash_update(@, nk)],
         recs |-> Append(recs, [hits |-> 0, key |-> nk, value |-> value])]

\* 100/1, 101, 110/2, 000/0, the list 100/1,011 and a key that is no address.
RadixKeys ==
    {<<"1", "0", "0", "/", "1">>, <<"1", "0", "1">>,
     <<"1", "1", "0", "/", "2">>, <<"0", "0", "0", "/", "0">>,
     <<"1", "0", "0", "/", "1", ",", "0", "1", "1">>, <<"a">>}
RadixValues == {<<"x">>, <<"y">>}
RadixAddrs == {<<a, b, c>> : a \in Bit, b \in Bit, c \in Bit}

RadixIdle ==
    /\ rx = radix_helper_zero
    /\ rx_recs = <<>>
    /\ rx_log = <<>>
    /\ rx_last = [op |-> "none"]

RadixInit ==
    /\ rx = rspamd_map_helper_new_radix
    /\ rx_recs = <<>>
    /\ rx_log = <<>>
    /\ rx_last = [op |-> "new"]

\* The prefixes of a key, each with the value handed over with the key.
logged(key, value) ==
    LET ps == cidr_prefixes(str_split(key, ",", <<>>))
    IN  [i \in 1..Len(ps) |-> [prefix |-> ps[i], value |-> value]]

insert_radix(key, value, keep_old) ==
    /\ rx.pool
    /\ Len(rx_recs) < MaxCidrKeys
    /\ LET r == rspamd_map_helper_insert_radix(rx, rx_recs, key, value, keep_old)
       IN  rx' = r.st /\ rx_recs' = r.recs
    /\ rx_log' = rx_log \o logged(key, value)
    /\ rx_last' = [op |-> "insert", key |-> key]

rspamd_match_radix_map(in) ==
    /\ rx.pool
    /\ re_hits(rx_recs) < MaxRxHits
    /\ IF ~rx.trie_set THEN
           /\ rx_last' = [op |-> "match", in |-> in, none |-> TRUE, ret |-> <<>>]
           /\ UNCHANGED rx_recs
       ELSE LET val == radix_find_compressed(rx.trie, in)
            IN  IF val # RADIX_NO_VALUE THEN
                    /\ rx_recs' = [rx_recs EXCEPT ![val].hits = @ + 1]
                    /\ rx_last' = [op |-> "match", in |-> in, none |-> FALSE,
                                   ret |-> rx_recs[val].value]
                ELSE
                    /\ rx_last' = [op |-> "match", in |-> in, none |-> TRUE,
                                   ret |-> <<>>]
                    /\ UNCHANGED rx_recs
    /\ UNCHANGED <<rx, rx_log>>

RadixNext ==
    \/ \E key \in RadixKeys, value \in RadixValues, keep_old \in BOOLEAN :
          insert_radix(key, value, keep_old)
    \/ \E in \in RadixAddrs : rspamd_match_radix_map(in)

(***************************************************************************)
(* map_helpers.c: the three callbacks of a map (read, fin, dtor) and the   *)
(* generations of its index.  An index is kept as its kind, whether its    *)
(* pool is alive, the number of its elements, the hits it has counted and, *)
(* for a regexp map, whether it has been finalised.  cb.open tells that    *)
(* the loader has a stream under way.                                      *)
(***************************************************************************)
IndexKinds == {"hash", "radix", "regexp"}

\* rspamd_map_helper_new_hash / _new_radix / _new_regexp.
new_index(kind) ==
    [kind |-> kind, pool |-> TRUE, nelts |-> 0, hits |-> 0, fin |-> FALSE]

\* rspamd_map_helper_destroy_hash / _destroy_radix / _destroy_regexp: the
\* helper is zeroed and its pool deleted.
destroy_index(g) ==
    IF ~g.pool THEN g
    ELSE [kind |-> g.kind, pool |-> FALSE, nelts |-> 0, hits |-> 0,
          fin |-> FALSE]

GenIdle ==
    /\ gens = <<>>
    /\ cb = [cur_data |-> NULL, prev_data |-> NULL, reads |-> 0,
             open |-> FALSE, kind |-> "none"]
    /\ target = NULL
    /\ map_nelts = 0
    /\ gen_last = [op |-> "none"]

GenInit ==
    /\ gens = <<>>
    /\ \E kind \in IndexKinds :
          cb = [cur_data |-> NULL, prev_data |-> NULL, reads |-> 0,
                open |-> TRUE, kind |-> kind]
    /\ target = NULL
    /\ map_nelts = 0
    /\ gen_last = [op |-> "begin"]

\* The loader starts the next stream: the published index becomes the prior
\* generation and there is no index in flight.
begin_stream ==
    /\ ~cb.open
    /\ Len(gens) < MaxGens
    /\ cb' = [cb EXCEPT !.cur_data = NULL, !.prev_data = target,
                        !.reads = 0, !.open = TRUE]
    /\ gen_last' = [op |-> "begin"]
    /\ UNCHANGED <<gens, target, map_nelts>>

\* rspamd_kv_list_read / rspamd_radix_read / rspamd_regexp_list_read_*: the
\* index in flight is created by the first call; the chunk gives n elements.
map_read(n) ==
    /\ cb.open
    /\ cb.reads < MaxReads
    /\ LET fresh == cb.cur_data = NULL
           gs == IF fresh THEN Append(gens, new_index(cb.kind)) ELSE gens
           cur == IF fresh THEN Len(gs) ELSE cb.cur_data
       IN  /\ gens' = [gs EXCEPT ![cur].nelts = @ + n]
           /\ cb' = [cb EXCEPT !.cur_data = cur, !.reads = @ + 1]
    /\ gen_last' = [op |-> "read"]
    /\ UNCHANGED <<target, map_nelts>>

\* rspamd_kv_list_fin / rspamd_radix_fin / rspamd_regexp_list_fin;
\* with_target tells whether target is given.
map_fin(with_target) ==
    /\ cb.open
    /\ LET cur == cb.cur_data
           prev == cb.prev_data
           g1 == IF cur # NULL /\ cb.kind = "regexp"
                 THEN [gens EXCEPT ![cur].fin = TRUE] ELSE gens
           g2 == IF prev # NULL THEN [g1 EXCEPT ![prev] = destroy_index(@)]
                 ELSE g1
       IN  /\ gens' = g2
           /\ map_nelts' = IF cur # NULL THEN gens[cur].nelts ELSE map_nelts
           /\ target' = IF with_target THEN cur ELSE target
           /\ gen_last' = [op |-> "fin", cur |-> cur, prev |-> prev,
                           installed |-> with_target /\ cur # NULL,
                           destroyed |-> prev # NULL /\ gens[prev].pool
                                         /\ ~g2[prev].pool]
    /\ cb' = [cb EXCEPT !.open = FALSE]

\* A slip: the abort destructor drops the prior generation as well.
map_dtor_both ==
    /\ cb.open
    /\ LET g1 == IF cb.cur_data # NULL
                 THEN [gens EXCEPT ![cb.cur_data] = destroy_index(@)] ELSE gens
       IN  gens' = IF cb.prev_data # NULL
                   THEN [g1 EXCEPT ![cb.prev_data] = destroy_index(@)] ELSE g1
    /\ cb' = [cb EXCEPT !.open = FALSE]
    /\ gen_last' = [op |-> "dtor", cur |-> cb.cur_data, reads |-> cb.reads,
                    gens |-> gens, target |-> target]
    /\ UNCHANGED <<target, map_nelts>>

\* rspamd_kv_list_dtor / rspamd_radix_dtor / rspamd_regexp_list_dtor: the
\* stream is abandoned.
map_dtor ==
    /\ cb.open
    /\ gens' = IF cb.cur_data # NULL
               THEN [gens EXCEPT ![cb.cur_data] = destroy_index(@)] ELSE gens
    /\ cb' = [cb EXCEPT !.open = FALSE]
    /\ gen_last' = [op |-> "dtor", cur |-> cb.cur_data, reads |-> cb.reads,
                    gens |-> gens, target |-> target]
    /\ UNCHANGED <<target, map_nelts>>

\* A query of the published index (rspamd_match_hash_map and the like) that
\* finds its key: the hit is counted.  What a query of an index whose pool
\* has been deleted returns is not defined.
map_query ==
    /\ target # NULL
    /\ IF gens[target].pool THEN
           /\ gens[target].nelts > 0
           /\ gens[target].hits < MaxGenHits
           /\ gens' = [gens EXCEPT ![target].hits = @ + 1]
           /\ gen_last' = [op |-> "query", freed |-> FALSE, found |-> TRUE]
       ELSE
           /\ \E found \in BOOLEAN :
                 gen_last' = [op |-> "query", freed |-> TRUE, found |-> found]
           /\ UNCHANGED gens
    /\ UNCHANGED <<cb, target, map_nelts>>

GenNext ==
    \/ begin_stream
    \/ \E n \in 0..1 : map_read(n)
    \/ \E with_target \in BOOLEAN : map_fin(with_target)
    \/ map_dtor
    \/ map_query

(***************************************************************************)
(* mem_pool.c: slab chains and bump allocation.  A slab (struct            *)
(* _pool_chain) is kept as begin, pos and slice_size, with addresses       *)
(* counted from the start of its block, which the system allocator aligns. *)
(* pools[class] is the chain of the class, head first.                     *)
(***************************************************************************)
MIN_MEM_ALIGNMENT == 8

ChainTypes == {"NORMAL", "TMP", "SHARED"}

\* sizeof (struct _pool_chain): five words, of eight bytes or of four.
ChainHeaderSizes == {40, 20}

align_ptr(p, a) == ((p + a - 1) \div a) * a

\* A slip: the bytes in use are not taken off.
pool_chain_free_whole(chain) == chain.slice_size

pool_chain_free(chain) ==
    LET occupied == chain.pos - chain.begin + MIN_MEM_ALIGNMENT
    IN  IF occupied < chain.slice_size THEN chain.slice_size - occupied ELSE 0

\* A slip: no room is added for the alignment of the first region.
rspamd_mempool_chain_new_unpadded(size, hdr) ==
    [begin |-> hdr,
     pos |-> align_ptr(hdr, MIN_MEM_ALIGNMENT),
     slice_size |-> size]

\* The slab rspamd_mempool_chain_new returns, on a build whose allocator
\* gives no good size.
rspamd_mempool_chain_new(size, hdr) ==
    LET total_size == size + hdr + MIN_MEM_ALIGNMENT
    IN  [begin |-> hdr,
         pos |-> align_ptr(hdr, MIN_MEM_ALIGNMENT),
         slice_size |-> total_size - hdr]

\* The counters after rspamd_mempool_chain_new.
chain_new_stat(st, size, hdr, pool_type) ==
    LET total_size == size + hdr + MIN_MEM_ALIGNMENT
    IN  IF pool_type = "SHARED"
        THEN [st EXCEPT !.shared_chunks_allocated = @ + 1,
                        !.bytes_allocated = @ + total_size]
        ELSE [st EXCEPT !.bytes_allocated = @ + total_size,
                        !.chunks_allocated = @ + 1]

stat_zero ==
    [bytes_allocated |-> 0, chunks_allocated |-> 0,
     shared_chunks_allocated |-> 0, oversized_chunks |-> 0,
     fragmented_size |-> 0, pools_allocated |-> 0, pools_freed |-> 0,
     fragmentation |-> 0]

\* The pool after rspamd_mempool_new_, here with one destructor registered
\* and one variable set.
rspamd_mempool_new(size) ==
    [elt_len |-> size,
     pools |-> [t \in ChainTypes |-> <<>>],
     trash_stack |-> <<>>,
     destructors |-> <<[func |-> "f", data |-> 1]>>,
     variables |-> {[name |-> "v", value |-> 1]},
     invoked |-> <<>>]

\* The pool, the counters and the region after memory_pool_alloc_common.
memory_pool_alloc_common(pool, st, env, size, pool_type) ==
    IF env.always_malloc /\ pool_type # "SHARED" THEN
        [pool |-> [pool EXCEPT !.trash_stack = Append(@, size)],
         st |-> st, slab |-> FALSE, fresh |-> FALSE, tmp |-> 0]
    ELSE
        LET chainq == pool.pools[pool_type]
            cur == IF chainq = <<>> THEN NULL ELSE 1
            free == IF cur # NULL THEN pool_chain_free(chainq[1]) ELSE 0
        IN  IF cur = NULL \/ free < size THEN
                LET fits == pool.elt_len >= size + MIN_MEM_ALIGNMENT
                    new == IF fits
                           THEN rspamd_mempool_chain_new(pool.elt_len, env.hdr)
                           ELSE rspamd_mempool_chain_new(size + pool.elt_len,
                                                         env.hdr)
                    st1 == IF fits
                           THEN [st EXCEPT !.fragmentation = @ + size]
                           ELSE [st EXCEPT !.oversized_chunks = @ + 1,
                                           !.fragmented_size = @ + free,
                                           !.fragmentation = @ + free]
                    st2 == chain_new_stat(st1,
                               IF fits THEN pool.elt_len
                               ELSE size + pool.elt_len, env.hdr, pool_type)
                    tmp == new.pos
                IN  [pool |-> [pool EXCEPT !.pools[pool_type] =
                                  <<[new EXCEPT !.pos = tmp + size]>> \o @],
                     st |-> st2, slab |-> TRUE, fresh |-> TRUE, tmp |-> tmp]
            ELSE
                LET tmp == align_ptr(chainq[1].pos, MIN_MEM_ALIGNMENT)
                IN  [pool |-> [pool EXCEPT !.pools[pool_type][1].pos =
                                  tmp + size],
                     st |-> st, slab |-> TRUE, fresh |-> FALSE, tmp |-> tmp]

AllocSizes == {0, 1, 12}
EltLens == {13, 16}

\* Bytes handed out from the slabs of each class and from the system
\* allocator (trash), and the number of requests served (n).
handed_zero == [t \in ChainTypes \cup {"trash", "n"} |-> 0]

no_pool ==
    [elt_len |-> 0, pools |-> [t \in ChainTypes |-> <<>>],
     trash_stack |-> <<>>, destructors |-> <<>>, variables |-> {},
     invoked |-> <<>>]

\* No region is handed out; news, deletes and cleanups count the calls of
\* rspamd_mempool_new_, rspamd_mempool_delete and rspamd_mempool_cleanup_tmp.
hist_zero ==
    [regions |-> [t \in ChainTypes |-> <<>>], news |-> 0, deletes |-> 0,
     cleanups |-> 0]

AllocIdle ==
    /\ apool = no_pool
    /\ aenv = [always_malloc |-> FALSE, hdr |-> 40]
    /\ astat = stat_zero
    /\ handed = handed_zero
    /\ a_last = [op |-> "none"]
    /\ a_hist = hist_zero

\* The process before its first pool: mem_pool_stat is zeroed when it is
\* mapped; the build fixes the size of the chain header and the environment
\* the always-malloc mode.
AllocInit ==
    /\ apool = no_pool
    /\ \E am \in BOOLEAN, hdr \in ChainHeaderSizes :
          aenv = [always_malloc |-> am, hdr |-> hdr]
    /\ astat = stat_zero
    /\ handed = handed_zero
    /\ a_last = [op |-> "none"]
    /\ a_hist = hist_zero

\* rspamd_mempool_alloc, rspamd_mempool_alloc_tmp, rspamd_mempool_alloc_shared.
rspamd_mempool_alloc(size, pool_type) ==
    /\ apool.elt_len > 0
    /\ handed["n"] < MaxAllocs
    /\ LET r == memory_pool_alloc_common(apool, astat, aenv, size, pool_type)
           from == IF r.slab THEN pool_type ELSE "trash"
       IN  /\ apool' = r.pool
           /\ astat' = r.st
           /\ handed' = [handed EXCEPT ![from] = @ + size, !["n"] = @ + 1]
           /\ a_last' = [op |-> "alloc", type |-> pool_type, size |-> size,
                         slab |-> r.slab, fresh |-> r.fresh, tmp |-> r.tmp,
                         pool |-> apool]
           /\ a_hist' = IF ~r.slab THEN a_hist
                        ELSE [a_hist EXCEPT !.regions[pool_type] = Append(@,
                                [slab |-> Len(r.pool.pools[pool_type]),
                                 tmp |-> r.tmp, size |-> size])]
    /\ UNCHANGED aenv

\* The sum of the slice sizes of a chain.
RECURSIVE chain_size(_)
chain_size(chainq) ==
    IF chainq = <<>> THEN 0
    ELSE Head(chainq).slice_size + chain_size(Tail(chainq))

\* A slip: the NORMAL chain is released as well.
rspamd_mempool_cleanup_tmp_all ==
    /\ apool.elt_len > 0
    /\ a_hist.cleanups < MaxCleanups
    /\ LET tmpq == apool.pools["TMP"] \o apool.pools["NORMAL"]
       IN  /\ apool' = [apool EXCEPT !.pools["TMP"] = <<>>,
                                     !.pools["NORMAL"] = <<>>]
           /\ astat' = [astat EXCEPT
                          !.bytes_allocated = @ - chain_size(tmpq),
                          !.chunks_allocated = @ - Len(tmpq),
                          !.pools_freed = @ + 1]
    /\ handed' = [handed EXCEPT !["TMP"] = 0]
    /\ a_last' = [op |-> "cleanup_tmp", pool |-> apool]
    /\ a_hist' = [a_hist EXCEPT !.regions["TMP"] = <<>>,
                                !.regions["NORMAL"] = <<>>,
                                !.cleanups = @ + 1]
    /\ UNCHANGED aenv

rspamd_mempool_cleanup_tmp ==
    /\ apool.elt_len > 0
    /\ a_hist.cleanups < MaxCleanups
    /\ LET tmpq == apool.pools["TMP"]
       IN  /\ apool' = [apool EXCEPT !.pools["TMP"] = <<>>]
           /\ astat' = [astat EXCEPT
                          !.bytes_allocated = @ - chain_size(tmpq),
                          !.chunks_allocated = @ - Len(tmpq),
                          !.pools_freed = @ + 1]
    /\ handed' = [handed EXCEPT !["TMP"] = 0]
    /\ a_last' = [op |-> "cleanup_tmp", pool |-> apool]
    /\ a_hist' = [a_hist EXCEPT !.regions["TMP"] = <<>>,
                                !.cleanups = @ + 1]
    /\ UNCHANGED aenv

\* rspamd_mempool_delete, the part that releases the slabs and the trash
\* stack and counts the pool as freed.
delete_with_slabs ==
    /\ apool.elt_len > 0
    /\ LET allq == apool.pools["NORMAL"] \o apool.pools["TMP"]
                      \o apool.pools["SHARED"]
       IN  astat' = [astat EXCEPT
                        !.bytes_allocated = @ - chain_size(allq),
                        !.chunks_allocated = @ - Len(allq),
                        !.pools_freed = @ + 1]
    /\ apool' = no_pool
    /\ handed' = [handed_zero EXCEPT !["n"] = handed["n"]]
    /\ a_last' = [op |-> "delete", pool |-> apool]
    /\ a_hist' = [a_hist EXCEPT !.regions = hist_zero.regions,
                                !.deletes = @ + 1]
    /\ UNCHANGED aenv

\* rspamd_mempool_new_: the first pool, or the next one once the pool before
\* has been deleted.
\* The characters of the UID: the sixteen hexadecimal digits and the
\* terminating zero byte.
hexdigits == <<"0", "1", "2", "3", "4", "5", "6", "7",
               "8", "9", "a", "b", "c", "d", "e", "f">>
NUL == "NUL"

\* The bytes of uidbuf.
UIDBUF_LEN == 10

\* The random buffers ottery_rand_bytes may fill in.
UidBufs ==
    {[i \in 1..UIDBUF_LEN |-> 0],
     [i \in 1..UIDBUF_LEN |-> 255],
     <<1, 35, 69, 103, 137, 171, 205, 239, 16, 50>>,
     <<222, 173, 190, 239, 0, 255, 128, 127, 9, 144>>}

\* tag.uid after the loop over uidbuf: two digits for each byte of the
\* buffer, uid[i * 2] and uid[i * 2 + 1] being the elements 2i + 1 and
\* 2i + 2 here.
uid_digits(uidbuf) ==
    [k \in 1..(2 * UIDBUF_LEN) |->
        IF k % 2 = 1 THEN hexdigits[((uidbuf[(k + 1) \div 2] \div 16) % 16) + 1]
        ELSE hexdigits[(uidbuf[k \div 2] % 16) + 1]]

\* The generation of the UID without the store of the terminator.
uid_of_unterminated(uidbuf) ==
    uid_digits(uidbuf)

\* tag.uid after the generation of the UID: the digits of the loop and then
\* uid[19] = 0.
uid_of(uidbuf) ==
    [uid_digits(uidbuf) EXCEPT ![20] = NUL]

\* The C string held by an array of characters: what precedes the first
\* zero byte.
RECURSIVE c_string(_)
c_string(chars) ==
    IF chars = <<>> \/ Head(chars) = NUL THEN <<>>
    ELSE <<Head(chars)>> \o c_string(Tail(chars))

rspamd_mempool_new_(size) ==
    /\ apool = no_pool
    /\ a_hist.news < MaxPools
    /\ apool' = rspamd_mempool_new(size)
    /\ astat' = [astat EXCEPT !.pools_allocated = @ + 1]
    /\ \E uidbuf \in UidBufs : a_last' = [op |-> "new", uid |-> uid_of(uidbuf)]
    /\ a_hist' = [a_hist EXCEPT !.news = @ + 1]
    /\ UNCHANGED <<aenv, handed>>

AllocNext ==
    \/ \E size \in AllocSizes, pool_type \in ChainTypes :
          rspamd_mempool_alloc(size, pool_type)
    \/ rspamd_mempool_cleanup_tmp
    \/ delete_with_slabs
    \/ \E size \in EltLens : rspamd_mempool_new_(size)

(***************************************************************************)
(* mem_pool.c: the entry-point statistics and the self-tuning of the slab  *)
(* size.  A guint32 of an observation is kept as the gint that has the     *)
(* same 32 bits; the slots of the ring are kept as the number of slots     *)
(* that hold each observation, since the adjustment sorts them.  The       *)
(* products and quotients of the adjustment are computed exactly and       *)
(* truncated, where the code computes them in double precision.            *)
(***************************************************************************)
ENTRY_NELTS == 64
FIXED_POOL_SIZE == 4096
G_MAXINT == 2147483647
G_MININT == (-2147483647) - 1

\* a - b on 32 bits, wrapping.
sub32(a, b) ==
    IF b >= 0
    THEN IF a >= G_MININT + b THEN a - b
         ELSE ((((a + G_MAXINT) + 1) - b) + G_MAXINT) + 1
    ELSE IF a <= G_MAXINT + b THEN a - b
         ELSE ((((a - G_MAXINT) - 1) - b) - G_MAXINT) - 1

\* Whether i1 - i2 of cmp_int overflows.
cmp_int_overflows(i1, i2) ==
    IF i2 >= 0 THEN i1 < G_MININT + i2 ELSE i1 > G_MAXINT + i2

\* The quotient and remainder of a * b by c, for a and c below 2^29.
RECURSIVE muldiv_qr(_, _, _)
muldiv_qr(a, b, c) ==
    IF b = 0 THEN [q |-> 0, r |-> 0]
    ELSE LET h == muldiv_qr(a, b \div 2, c)
             r2 == 2 * h.r + (IF b % 2 = 1 THEN a ELSE 0)
         IN  [q |-> 2 * h.q + r2 \div c, r |-> r2 % c]

\* A guint32 above every value the model writes out.
Above == G_MAXINT

\* What the conversion of a double that is out of the range of guint32
\* leaves in cur_suggestion is not defined.
OutOfRangeValues == {0, 5000, Above}

\* cur_suggestion *= (1 + ((double) sel_pos) / cur_suggestion) * 1.5
grow(cur, sel_pos) ==
    IF sel_pos > 1000000000 THEN {Above}
    ELSE IF cur + sel_pos < 0 THEN OutOfRangeValues
    ELSE {(cur + sel_pos) + (cur + sel_pos) \div 2}

\* cur_suggestion /= (1 + ((double) n) / cur_suggestion) * 1.5, n >= 0
shrink(cur, n) ==
    IF n <= 100000000
    THEN {muldiv_qr(2 * cur, cur, 3 * (cur + n)).q}
    ELSE {muldiv_qr(2 * cur, cur \div 16,
                    3 * (cur \div 16 + n \div 16)).q}

\* The k-th of the values sz[] in ascending order (k from 0), the slots
\* being given as the number n[v] of slots holding v.
nth_sorted(n, k) ==
    CHOOSE v \in DOMAIN n :
        /\ n[v] > 0
        /\ LET below == {u \in DOMAIN n : u < v}
               cnt[S \in SUBSET below] ==
                   IF S = {} THEN 0
                   ELSE LET u == CHOOSE u \in S : TRUE
                        IN  n[u] + cnt[S \ {u}]
           IN  cnt[below] <= k /\ k < cnt[below] + n[v]

\* What qsort with cmp_int can leave at index k: the k-th value in order,
\* or any value when a difference of two values overflows.
qsort_at(n, k) ==
    LET vals == {v \in DOMAIN n : n[v] > 0}
    IN  IF \E i1, i2 \in vals : cmp_int_overflows(i1, i2) THEN vals
        ELSE {nth_sorted(n, k)}

clamp(s) ==
    IF s < 1024 THEN 1024
    ELSE IF s > 1024 * 1024 * 10 THEN 1024 * 1024 * 10 ELSE s

\* The values cur_suggestion can hold before the limits are applied.
adjust_raw(cur, sel_pos, sel_neg) ==
    IF sel_neg > 0 THEN grow(cur, sel_pos)
    ELSE IF sel_neg = G_MININT
    THEN OutOfRangeValues \cup shrink(cur, G_MAXINT) \cup grow(cur, sel_pos)
    ELSE IF -sel_neg > sel_pos THEN shrink(cur, -sel_neg)
    ELSE grow(cur, sel_pos)

\* The net wastes of the slots: how many slots hold each value.
sz_of(elts) ==
    LET vals == {sub32(o.fragmentation, o.leftover) : o \in DOMAIN elts}
    IN  [v \in vals |->
            LET os == {o \in DOMAIN elts :
                          sub32(o.fragmentation, o.leftover) = v}
                cnt[S \in SUBSET os] ==
                    IF S = {} THEN 0
                    ELSE LET o == CHOOSE o \in S : TRUE
                         IN  elts[o] + cnt[S \ {o}]
            IN  cnt[os]]

\* A slip: the upper limit is not applied.
rspamd_mempool_adjust_entry_nocap(e, jitter) ==
    LET sz == sz_of(e.elts)
    IN  {[row |-> [cur_suggestion |-> IF raw < 1024 THEN 1024 ELSE raw,
                   cur_elts |-> e.cur_elts,
                   elts |-> [o \in DOMAIN e.elts |-> 0]],
          raw |-> raw] :
            raw \in UNION {adjust_raw(e.cur_suggestion, sel[1], sel[2]) :
                       sel \in qsort_at(sz, 50 + jitter)
                                 \X qsort_at(sz, 4 + jitter)}}

\* A slip: the slots are not cleared.
rspamd_mempool_adjust_entry_keep(e, jitter) ==
    LET sz == sz_of(e.elts)
    IN  {[row |-> [cur_suggestion |-> clamp(raw),
                   cur_elts |-> e.cur_elts,
                   elts |-> e.elts],
          raw |-> raw] :
            raw \in UNION {adjust_raw(e.cur_suggestion, sel[1], sel[2]) :
                       sel \in qsort_at(sz, 50 + jitter)
                                 \X qsort_at(sz, 4 + jitter)}}

\* The rows rspamd_mempool_adjust_entry can leave, each with the value of
\* cur_suggestion before the limits were applied.
rspamd_mempool_adjust_entry(e, jitter) ==
    LET sz == sz_of(e.elts)
    IN  {[row |-> [cur_suggestion |-> clamp(raw),
                   cur_elts |-> e.cur_elts,
                   elts |-> [o \in DOMAIN e.elts |-> 0]],
          raw |-> raw] :
            raw \in UNION {adjust_raw(e.cur_suggestion, sel[1], sel[2]) :
                       sel \in qsort_at(sz, 50 + jitter)
                                 \X qsort_at(sz, 4 + jitter)}}

\* Observations (fragmentation, leftover) of one pool.
Observations ==
    {[fragmentation |-> 0, leftover |-> 0],
     [fragmentation |-> 5000, leftover |-> 0],
     [fragmentation |-> 0, leftover |-> 5000],
     [fragmentation |-> 20000000, leftover |-> 0],
     [fragmentation |-> 0, leftover |-> 20000000],
     [fragmentation |-> G_MININT, leftover |-> 0],
     [fragmentation |-> -1, leftover |-> G_MININT]}

PageSizes == {4096, 65536}

EntryIdle ==
    /\ entry = [cur_suggestion |-> 0, cur_elts |-> 0, elts |-> <<>>]
    /\ entry_obs = {}
    /\ e_last = [op |-> "none", adjusts |-> 0]

\* rspamd_mempool_entry_new.
EntryInit ==
    /\ \E obs \in SUBSET Observations :
          /\ Cardinality(obs) \in {1, 2}
          /\ entry_obs = obs
          /\ \E pagesize \in PageSizes :
                entry = [cur_suggestion |->
                             IF pagesize > FIXED_POOL_SIZE THEN pagesize
                             ELSE FIXED_POOL_SIZE,
                         cur_elts |-> 0,
                         elts |-> [o \in obs |-> 0]]
    /\ e_last = [op |-> "new", adjusts |-> 0]

\* rspamd_mempool_delete, the part that feeds the row: a pool whose NORMAL
\* chain is not empty records its observation in the current slot; the row
\* is adjusted when the ring wraps.
entry_observe(o) ==
    /\ o \in entry_obs
    /\ e_last.adjusts < MaxAdjusts
    /\ LET e1 == [entry EXCEPT !.elts[o] = @ + 1,
                               !.cur_elts = (@ + 1) % ENTRY_NELTS]
       IN  IF e1.cur_elts # 0 THEN
               /\ entry' = e1
               /\ e_last' = [op |-> "delete", adjusts |-> e_last.adjusts]
           ELSE
               \E jitter \in 0..9 :
                 \E r \in rspamd_mempool_adjust_entry(e1, jitter) :
                     /\ entry' = r.row
                     /\ e_last' = [op |-> "adjust",
                                   adjusts |-> e_last.adjusts + 1,
                                   raw |-> r.raw]
    /\ UNCHANGED entry_obs

\* rspamd_mempool_delete of a pool that has no NORMAL slab (cur == NULL):
\* nothing is recorded and the ring does not move.
entry_skip ==
    /\ entry_obs # {}
    /\ e_last' = [op |-> "skip", adjusts |-> e_last.adjusts]
    /\ UNCHANGED <<entry, entry_obs>>

EntryNext ==
    \/ \E o \in Observations : entry_observe(o)
    \/ entry_skip

(***************************************************************************)
(* mem_pool.c: the emulated mutex (no process-shared pthread mutexes).     *)
(* Processes are known by their pids; every access to the shared mutex is  *)
(* one step of the process that makes it.                                  *)
(***************************************************************************)
MUTEX_SPIN_COUNT == 100

Pids == {1, 2, 3}

\* kill (pid, 0) == -1: there is no such process.  Pid 0 stands for the
\* process group of the caller, which exists.
kill_fails(pid, alive) == pid # 0 /\ pid \notin alive

\* The mutex after __mutex_spin and what it returns (0: stop waiting).
mutex_spin(mutex, pid, alive) ==
    LET spin == mutex.spin - 1
    IN  IF spin = 0 THEN
            IF mutex.owner = pid \/ kill_fails(mutex.owner, alive)
            THEN [mutex |-> [mutex EXCEPT !.spin = MUTEX_SPIN_COUNT],
                  ret |-> 0]
            ELSE [mutex |-> [mutex EXCEPT !.spin = MUTEX_SPIN_COUNT],
                  ret |-> 1]
        ELSE [mutex |-> [mutex EXCEPT !.spin = spin], ret |-> 1]

rspamd_mempool_get_mutex ==
    [lock |-> 0, owner |-> 0, spin |-> MUTEX_SPIN_COUNT]

MutexIdle ==
    /\ mtx = rspamd_mempool_get_mutex
    /\ mpc = [p \in Pids |-> "dead"]
    /\ malive = {}
    /\ mdone = [p \in Pids |-> 0]

MutexInit ==
    /\ mtx = rspamd_mempool_get_mutex
    /\ mpc = [p \in Pids |-> "idle"]
    /\ malive = Pids
    /\ mdone = [p \in Pids |-> 0]

\* rspamd_mempool_lock_mutex is called.
lock_call(p) ==
    /\ mpc[p] = "idle"
    /\ mdone[p] < MaxLocks
    /\ mpc' = [mpc EXCEPT ![p] = "spin"]
    /\ UNCHANGED <<mtx, malive, mdone>>

\* memory_pool_mutex_spin: one turn of the loop.
lock_spin(p) ==
    /\ mpc[p] = "spin"
    /\ IF mtx.lock = 0 THEN
           /\ mtx' = [mtx EXCEPT !.lock = 1]
           /\ mpc' = [mpc EXCEPT ![p] = "owner"]
       ELSE
           LET r == mutex_spin(mtx, p, malive)
           IN  /\ mtx' = r.mutex
               /\ mpc' = [mpc EXCEPT ![p] = IF r.ret = 0 THEN "owner"
                                            ELSE "spin"]
    /\ UNCHANGED <<malive, mdone>>

\* rspamd_mempool_lock_mutex: mutex->owner = getpid (), and the return.
lock_owner(p) ==
    /\ mpc[p] = "owner"
    /\ mtx' = [mtx EXCEPT !.owner = p]
    /\ mpc' = [mpc EXCEPT ![p] = "held"]
    /\ mdone' = [mdone EXCEPT ![p] = @ + 1]
    /\ UNCHANGED malive

\* rspamd_mempool_unlock_mutex: mutex->owner = 0.
unlock_owner(p) ==
    /\ mpc[p] = "held"
    /\ mtx' = [mtx EXCEPT !.owner = 0]
    /\ mpc' = [mpc EXCEPT ![p] = "unlock"]
    /\ UNCHANGED <<malive, mdone>>

\* rspamd_mempool_unlock_mutex: the lock is given back.
unlock_cas(p) ==
    /\ mpc[p] = "unlock"
    /\ mtx' = [mtx EXCEPT !.lock = IF @ = 1 THEN 0 ELSE @]
    /\ mpc' = [mpc EXCEPT ![p] = "idle"]
    /\ UNCHANGED <<malive, mdone>>

\* A process that has the lock dies.
die(p) ==
    /\ mpc[p] \in {"owner", "held", "unlock"}
    /\ Cardinality(Pids \ malive) < MaxDeaths
    /\ malive' = malive \ {p}
    /\ mpc' = [mpc EXCEPT ![p] = "dead"]
    /\ UNCHANGED <<mtx, mdone>>

proc_step(p) ==
    \/ lock_call(p)
    \/ lock_spin(p)
    \/ lock_owner(p)
    \/ unlock_owner(p)
    \/ unlock_cas(p)

MutexNext == \E p \in Pids : proc_step(p) \/ die(p)

(***************************************************************************)
(* mem_pool.c: the emulated rwlock, two emulated mutexes.  Every access to *)
(* the shared lock is one step of the process that makes it.               *)
(***************************************************************************)
RwPids == {1, 2}

rspamd_mempool_get_rwlock ==
    [r |-> rspamd_mempool_get_mutex, w |-> rspamd_mempool_get_mutex]

\* The processes for which kill (pid, 0) succeeds.
rw_alive == {p \in RwPids : rwpc[p] # "dead"}

RwIdle ==
    /\ rwl = rspamd_mempool_get_rwlock
    /\ rwpc = [p \in RwPids |-> "none"]

RwInit ==
    /\ rwl = rspamd_mempool_get_rwlock
    /\ rwpc = [p \in RwPids |-> "idle"]

rlock_call(p) ==
    /\ rwpc[p] = "idle"
    /\ rwpc' = [rwpc EXCEPT ![p] = "r_wait"]
    /\ UNCHANGED rwl

\* rspamd_mempool_rlock_rwlock: one turn of the loop on the write lock.
rlock_wait(p) ==
    /\ rwpc[p] = "r_wait"
    /\ IF rwl.w.lock = 0 THEN
           /\ rwpc' = [rwpc EXCEPT ![p] = "r_inc"]
           /\ UNCHANGED rwl
       ELSE
           LET s == mutex_spin(rwl.w, p, rw_alive)
           IN  /\ rwl' = [rwl EXCEPT !.w = s.mutex]
               /\ rwpc' = [rwpc EXCEPT ![p] = IF s.ret = 0 THEN "r_inc"
                                              ELSE "r_wait"]

\* rspamd_mempool_rlock_rwlock: the reader is counted, and the return.
rlock_inc(p) ==
    /\ rwpc[p] = "r_inc"
    /\ rwl' = [rwl EXCEPT !.r.lock = @ + 1, !.r.owner = p]
    /\ rwpc' = [rwpc EXCEPT ![p] = "reading"]

rspamd_mempool_runlock_rwlock(p) ==
    /\ rwpc[p] = "reading"
    /\ rwl' = [rwl EXCEPT !.r.lock = IF @ # 0 THEN @ - 1 ELSE @]
    /\ rwpc' = [rwpc EXCEPT ![p] = "idle"]

wlock_call(p) ==
    /\ rwpc[p] = "idle"
    /\ rwpc' = [rwpc EXCEPT ![p] = "w_spin"]
    /\ UNCHANGED rwl

\* rspamd_mempool_wlock_rwlock: rspamd_mempool_lock_mutex on the write lock,
\* one turn of its loop.
wlock_spin(p) ==
    /\ rwpc[p] = "w_spin"
    /\ IF rwl.w.lock = 0 THEN
           /\ rwl' = [rwl EXCEPT !.w.lock = 1]
           /\ rwpc' = [rwpc EXCEPT ![p] = "w_owner"]
       ELSE
           LET s == mutex_spin(rwl.w, p, rw_alive)
           IN  /\ rwl' = [rwl EXCEPT !.w = s.mutex]
               /\ rwpc' = [rwpc EXCEPT ![p] = IF s.ret = 0 THEN "w_owner"
                                              ELSE "w_spin"]

wlock_owner(p) ==
    /\ rwpc[p] = "w_owner"
    /\ rwl' = [rwl EXCEPT !.w.owner = p]
    /\ rwpc' = [rwpc EXCEPT ![p] = "w_wait"]

\* rspamd_mempool_wlock_rwlock: one turn of the loop on the readers, and the
\* return when there is none.
wlock_wait(p) ==
    /\ rwpc[p] = "w_wait"
    /\ IF rwl.r.lock = 0 THEN
           /\ rwpc' = [rwpc EXCEPT ![p] = "writing"]
           /\ UNCHANGED rwl
       ELSE
           /\ rwl' = [rwl EXCEPT !.r = mutex_spin(rwl.r, p, rw_alive).mutex]
           /\ UNCHANGED rwpc

\* rspamd_mempool_wunlock_rwlock: rspamd_mempool_unlock_mutex, first step.
wunlock_owner(p) ==
    /\ rwpc[p] = "writing"
    /\ rwl' = [rwl EXCEPT !.w.owner = 0]
    /\ rwpc' = [rwpc EXCEPT ![p] = "w_unlock"]

wunlock_cas(p) ==
    /\ rwpc[p] = "w_unlock"
    /\ rwl' = [rwl EXCEPT !.w.lock = IF @ = 1 THEN 0 ELSE @]
    /\ rwpc' = [rwpc EXCEPT ![p] = "idle"]

\* A process dies inside its read section or its write section.
rw_die(p) ==
    /\ rwpc[p] \in {"reading", "writing"}
    /\ Cardinality(RwPids \ rw_alive) < MaxRwDeaths
    /\ rwpc' = [rwpc EXCEPT ![p] = "dead"]
    /\ UNCHANGED rwl

\* The steps of rspamd_mempool_rlock_rwlock and rspamd_mempool_runlock_rwlock.
reader_step(p) ==
    \/ rlock_call(p)
    \/ rlock_wait(p)
    \/ rlock_inc(p)
    \/ rspamd_mempool_runlock_rwlock(p)

\* The steps of rspamd_mempool_wlock_rwlock and rspamd_mempool_wunlock_rwlock.
writer_step(p) ==
    \/ wlock_call(p)
    \/ wlock_spin(p)
    \/ wlock_owner(p)
    \/ wlock_wait(p)
    \/ wunlock_owner(p)
    \/ wunlock_cas(p)

rw_step(p) == reader_step(p) \/ writer_step(p)

RwNext == \E p \in RwPids : rw_step(p) \/ rw_die(p)

(***************************************************************************)
(* map_helpers.c: the query functions called with a null pointer, for the  *)
(* map (there is no index) or for the input (an empty buffer given as the  *)
(* null pointer and the length 0).  Each function is followed up to its    *)
(* first return.                                                           *)
(***************************************************************************)
HashQueries == {"rspamd_match_hash_map"}
RadixQueries == {"rspamd_match_radix_map", "rspamd_match_radix_map_addr"}
RegexpQueries ==
    {"rspamd_match_regexp_map_single", "rspamd_match_regexp_map_all"}
QueryFns == HashQueries \cup RadixQueries \cup RegexpQueries

no_call ==
    [fn |-> "none", map_null |-> FALSE, in_null |-> FALSE, failed |-> FALSE,
     none |-> FALSE]

NullCallIdle == nq_last = no_call

NullCallInit == nq_last = no_call

\* rspamd_match_regexp_map_single asserts in != NULL before it looks at the
\* map or at the length; rspamd_match_regexp_map_all looks at the map and at
\* the length first; the hash and radix queries look at the map first.
g_assert_fails(fn, map_null, in_null) ==
    fn = "rspamd_match_regexp_map_single" /\ in_null

null_call(fn, map_null, in_null) ==
    /\ map_null \/ in_null
    /\ ~map_null => fn \in RegexpQueries /\ re_map.pool /\ re_map.fin
    /\ LET failed == g_assert_fails(fn, map_null, in_null)
       IN  nq_last' = [fn |-> fn, map_null |-> map_null, in_null |-> in_null,
                       failed |-> failed, none |-> ~failed]

NullCallNext ==
    \E fn \in QueryFns, map_null \in BOOLEAN, in_null \in BOOLEAN :
        null_call(fn, map_null, in_null)

(***************************************************************************)
(* mem_pool.c: the variables of a pool.  pool->variables is a GHashTable   *)
(* from names to values, created by the first set_variable; it is kept as  *)
(* the set of its (name, value) pairs, tab_set telling whether it exists.  *)
(***************************************************************************)
VarNames == {"v", "w"}
VarValues == {NULL, 1, 2}
VarDtors == {"none", "f"}

\* g_hash_table_lookup: the value stored for the name, NULL when none is.
g_hash_table_lookup(tab, name) ==
    LET hit == {e \in tab : e.name = name}
    IN  IF hit = {} THEN NULL ELSE (CHOOSE e \in hit : TRUE).value

\* A slip: the value of a name that is present is kept.
g_hash_table_insert_keep(tab, name, value) ==
    IF \E e \in tab : e.name = name THEN tab
    ELSE tab \cup {[name |-> name, value |-> value]}

\* g_hash_table_insert: the value of a name that is present is replaced.
g_hash_table_insert(tab, name, value) ==
    {e \in tab : e.name # name} \cup {[name |-> name, value |-> value]}

g_hash_table_remove(tab, name) == {e \in tab : e.name # name}

no_variables ==
    [alive |-> FALSE, tab_set |-> FALSE, tab |-> {}, destructors |-> <<>>]

VarIdle ==
    /\ vpool = no_variables
    /\ v_calls = <<>>
    /\ v_invoked = <<>>
    /\ v_last = [op |-> "none"]

\* rspamd_mempool_new_: no table yet, an empty destructor queue.
VarInit ==
    /\ vpool = [alive |-> TRUE, tab_set |-> FALSE, tab |-> {},
                destructors |-> <<>>]
    /\ v_calls = <<>>
    /\ v_invoked = <<>>
    /\ v_last = [op |-> "new"]

rspamd_mempool_set_variable(name, value, destructor) ==
    /\ vpool.alive
    /\ Len(v_calls) < MaxVarCalls
    /\ vpool' = [vpool EXCEPT
                   !.tab_set = TRUE,
                   !.tab = g_hash_table_insert(@, name, value),
                   !.destructors =
                       IF destructor # "none"
                       THEN Append(@, [func |-> destructor, data |-> value])
                       ELSE @]
    /\ v_calls' = Append(v_calls, [op |-> "set", name |-> name,
                                   value |-> value, dtor |-> destructor])
    /\ v_last' = [op |-> "set", name |-> name]
    /\ UNCHANGED v_invoked

rspamd_mempool_get_variable(name) ==
    /\ vpool.alive
    /\ v_last' = [op |-> "get", name |-> name,
                  ret |-> IF ~vpool.tab_set THEN NULL
                          ELSE g_hash_table_lookup(vpool.tab, name)]
    /\ UNCHANGED <<vpool, v_calls, v_invoked>>

rspamd_mempool_remove_variable(name) ==
    /\ vpool.alive
    /\ Len(v_calls) < MaxVarCalls
    /\ vpool' = IF vpool.tab_set
                THEN [vpool EXCEPT !.tab = g_hash_table_remove(@, name)]
                ELSE vpool
    /\ v_calls' = Append(v_calls, [op |-> "remove", name |-> name,
                                   value |-> NULL, dtor |-> "none"])
    /\ v_last' = [op |-> "remove", name |-> name]
    /\ UNCHANGED v_invoked

\* rspamd_mempool_delete: the destructors are called, in order, the entries
\* with NULL data being skipped; the queue and the table are freed.
delete_with_variables ==
    /\ vpool.alive
    /\ v_invoked' = v_invoked \o call_destructors(vpool.destructors)
    /\ vpool' = no_variables
    /\ v_last' = [op |-> "delete"]
    /\ UNCHANGED v_calls

VarNext ==
    \/ \E name \in VarNames, value \in VarValues, destructor \in VarDtors :
          rspamd_mempool_set_variable(name, value, destructor)
    \/ \E name \in VarNames : rspamd_mempool_get_variable(name)
    \/ \E name \in VarNames : rspamd_mempool_remove_variable(name)
    \/ delete_with_variables

(***************************************************************************)
(* The specifications.                                                     *)
(***************************************************************************)
PoolSpecInit ==
    /\ PoolInit /\ ParserIdle /\ HashIdle /\ StreamIdle /\ RegexpIdle
    /\ RadixIdle /\ GenIdle /\ AllocIdle /\ EntryIdle /\ MutexIdle /\ RwIdle
    /\ NullCallIdle /\ VarIdle
PoolSpecNext ==
    /\ PoolNext
    /\ UNCHANGED <<parserVars, hashVars, streamVars, reVars, radixVars
        , genVars, allocVars, entryVars, mutexVars, rwVars, nullVars
        , varVars>>
PoolSpec == PoolSpecInit /\ [][PoolSpecNext]_vars

ParserSpecInit ==
    /\ PoolIdle /\ ParserInit /\ HashIdle /\ StreamIdle /\ RegexpIdle
    /\ RadixIdle /\ GenIdle /\ AllocIdle /\ EntryIdle /\ MutexIdle /\ RwIdle
    /\ NullCallIdle /\ VarIdle
ParserSpecNext ==
    /\ ParserNext
    /\ UNCHANGED <<poolVars, hashVars, streamVars, reVars, radixVars
        , genVars, allocVars, entryVars, mutexVars, rwVars, nullVars
        , varVars>>
ParserSpec == ParserSpecInit /\ [][ParserSpecNext]_vars

HashSpecInit ==
    /\ PoolIdle /\ ParserIdle /\ HashInit /\ StreamIdle /\ RegexpIdle
    /\ RadixIdle /\ GenIdle /\ AllocIdle /\ EntryIdle /\ MutexIdle /\ RwIdle
    /\ NullCallIdle /\ VarIdle
HashSpecNext ==
    /\ HashNext
    /\ UNCHANGED <<poolVars, parserVars, streamVars, reVars, radixVars
        , genVars, allocVars, entryVars, mutexVars, rwVars, nullVars
        , varVars>>
HashSpec == HashSpecInit /\ [][HashSpecNext]_vars

StreamSpecInit ==
    /\ PoolIdle /\ ParserIdle /\ HashIdle /\ StreamInit /\ RegexpIdle
    /\ RadixIdle /\ GenIdle /\ AllocIdle /\ EntryIdle /\ MutexIdle /\ RwIdle
    /\ NullCallIdle /\ VarIdle
StreamSpecNext ==
    /\ StreamNext
    /\ UNCHANGED <<poolVars, parserVars, hashVars, reVars, radixVars
        , genVars, allocVars, entryVars, mutexVars, rwVars, nullVars
        , varVars>>
StreamSpec == StreamSpecInit /\ [][StreamSpecNext]_vars

RegexpSpecInit ==
    /\ PoolIdle /\ ParserIdle /\ HashIdle /\ StreamIdle /\ RegexpInit
    /\ RadixIdle /\ GenIdle /\ AllocIdle /\ EntryIdle /\ MutexIdle /\ RwIdle
    /\ NullCallIdle /\ VarIdle
RegexpSpecNext ==
    /\ RegexpNext
    /\ UNCHANGED <<poolVars, parserVars, hashVars, streamVars, radixVars
        , genVars, allocVars, entryVars, mutexVars, rwVars, nullVars
        , varVars>>
RegexpSpec == RegexpSpecInit /\ [][RegexpSpecNext]_vars

RadixSpecInit ==
    /\ PoolIdle /\ ParserIdle /\ HashIdle /\ StreamIdle /\ RegexpIdle
    /\ RadixInit /\ GenIdle /\ AllocIdle /\ EntryIdle /\ MutexIdle /\ RwIdle
    /\ NullCallIdle /\ VarIdle
RadixSpecNext ==
    /\ RadixNext
    /\ UNCHANGED <<poolVars, parserVars, hashVars, streamVars, reVars
        , genVars, allocVars, entryVars, mutexVars, rwVars, nullVars
        , varVars>>
RadixSpec == RadixSpecInit /\ [][RadixSpecNext]_vars

GenSpecInit ==
    /\ PoolIdle /\ ParserIdle /\ HashIdle /\ StreamIdle /\ RegexpIdle
    /\ RadixIdle /\ GenInit /\ AllocIdle /\ EntryIdle /\ MutexIdle /\ RwIdle
    /\ NullCallIdle /\ VarIdle
GenSpecNext ==
    /\ GenNext
    /\ UNCHANGED <<poolVars, parserVars, hashVars, streamVars, reVars
        , radixVars, allocVars, entryVars, mutexVars, rwVars, nullVars
        , varVars>>
GenSpec == GenSpecInit /\ [][GenSpecNext]_vars

AllocSpecInit ==
    /\ PoolIdle /\ ParserIdle /\ HashIdle /\ StreamIdle /\ RegexpIdle
    /\ RadixIdle /\ GenIdle /\ AllocInit /\ EntryIdle /\ MutexIdle /\ RwIdle
    /\ NullCallIdle /\ VarIdle
AllocSpecNext ==
    /\ AllocNext
    /\ UNCHANGED <<poolVars, parserVars, hashVars, streamVars, reVars
        , radixVars, genVars, entryVars, mutexVars, rwVars, nullVars
        , varVars>>
AllocSpec == AllocSpecInit /\ [][AllocSpecNext]_vars

EntrySpecInit ==
    /\ PoolIdle /\ ParserIdle /\ HashIdle /\ StreamIdle /\ RegexpIdle
    /\ RadixIdle /\ GenIdle /\ AllocIdle /\ EntryInit /\ MutexIdle /\ RwIdle
    /\ NullCallIdle /\ VarIdle
EntrySpecNext ==
    /\ EntryNext
    /\ UNCHANGED <<poolVars, parserVars, hashVars, streamVars, reVars
        , radixVars, genVars, allocVars, mutexVars, rwVars, nullVars
        , varVars>>
EntrySpec == EntrySpecInit /\ [][EntrySpecNext]_vars

MutexSpecInit ==
    /\ PoolIdle /\ ParserIdle /\ HashIdle /\ StreamIdle /\ RegexpIdle
    /\ RadixIdle /\ GenIdle /\ AllocIdle /\ EntryIdle /\ MutexInit /\ RwIdle
    /\ NullCallIdle /\ VarIdle
MutexSpecNext ==
    /\ MutexNext
    /\ UNCHANGED <<poolVars, parserVars, hashVars, streamVars, reVars
        , radixVars, genVars, allocVars, entryVars, rwVars, nullVars
        , varVars>>
MutexSpec == MutexSpecInit /\ [][MutexSpecNext]_vars

RwSpecInit ==
    /\ PoolIdle /\ ParserIdle /\ HashIdle /\ StreamIdle /\ RegexpIdle
    /\ RadixIdle /\ GenIdle /\ AllocIdle /\ EntryIdle /\ MutexIdle /\ RwInit
    /\ NullCallIdle /\ VarIdle
RwSpecNext ==
    /\ RwNext
    /\ UNCHANGED <<poolVars, parserVars, hashVars, streamVars, reVars
        , radixVars, genVars, allocVars, entryVars, mutexVars, nullVars
        , varVars>>
RwSpec == RwSpecInit /\ [][RwSpecNext]_vars

NullCallSpecInit ==
    /\ PoolIdle /\ ParserIdle /\ HashIdle /\ StreamIdle /\ RegexpIdle
    /\ RadixIdle /\ GenIdle /\ AllocIdle /\ EntryIdle /\ MutexIdle /\ RwIdle
    /\ NullCallInit /\ VarIdle
NullCallSpecNext ==
    /\ NullCallNext
    /\ UNCHANGED <<poolVars, parserVars, hashVars, streamVars, reVars
        , radixVars, genVars, allocVars, entryVars, mutexVars, rwVars
        , varVars>>
NullCallSpec == NullCallSpecInit /\ [][NullCallSpecNext]_vars

VarSpecInit ==
    /\ PoolIdle /\ ParserIdle /\ HashIdle /\ StreamIdle /\ RegexpIdle
    /\ RadixIdle /\ GenIdle /\ AllocIdle /\ EntryIdle /\ MutexIdle /\ RwIdle
    /\ NullCallIdle /\ VarInit
VarSpecNext ==
    /\ VarNext
    /\ UNCHANGED <<poolVars, parserVars, hashVars, streamVars, reVars
        , radixVars, genVars, allocVars, entryVars, mutexVars, rwVars
        , nullVars>>
VarSpec == VarSpecInit /\ [][VarSpecNext]_vars

(***************************************************************************)
(* The destructor queue (PoolSpec).                                        *)
(***************************************************************************)
\* The positions in the log of the calls made for entry id.
calls_of(id) == {i \in 1..Len(invoked) : invoked[i].entry.id = id}

\* C1: on every path of add_destructor / replace_destructor /
\* destructors_enforce calls, no entry is ever invoked twice, the calls are in
\* registration order and none is made with NULL data; once the pool has been
\* deleted, every entry whose data was non-null has been invoked exactly once
\* (with the function and data it then held) and every entry with NULL data
\* never.
C1_DestructorsOnceInOrder ==
    /\ \A i, j \in 1..Len(invoked) :
          i < j => invoked[i].entry.id < invoked[j].entry.id
    /\ \A i \in 1..Len(invoked) :
          /\ invoked[i].entry.data # NULL
          /\ invoked[i].entry = registered[invoked[i].entry.id]
    /\ ~pool_alive =>
          \A id \in 1..Len(registered) :
             Cardinality(calls_of(id)) =
                (IF registered[id].data # NULL THEN 1 ELSE 0)

\* C1 witness: the pool has been deleted; one entry was run by an explicit
\* enforcement, a later one by the deletion, and an entry whose data is NULL
\* was skipped.
C1_Witness ==
    /\ ~pool_alive
    /\ \E i, j \in 1..Len(invoked) :
          invoked[i].by = "enforce" /\ invoked[j].by = "delete"
    /\ \E id \in 1..Len(registered) : registered[id].data = NULL

(***************************************************************************)
(* The parser (ParserSpec).                                                *)
(***************************************************************************)
\* The whole input has been delivered (the last call had final = TRUE).
parsed == input # <<>> /\ delivered = Len(input)

\* C2: when the input has been fed one byte per call, final on the last
\* byte, the insertions made are those of one call with the whole input
\* and final = TRUE.
C2_ByteWiseEqualsWhole ==
    (parsed /\ \A i \in 1..Len(chunks) : chunks[i] = 1)
        => insertions = whole(input)

\* C3: "he\"llo" wor / ld LF, split across two calls, gives exactly one
\* insertion, of key he"llo and value world.
C3_ResumeAcrossCalls ==
    (parsed /\ input = ResumeInput /\ chunks = ResumeSplit)
        => insertions =
             << kv(<<"h", "e", "\"", "l", "l", "o">>,
                   <<"w", "o", "r", "l", "d">>) >>

\* C4: when an input that ends without a newline with a key or a key and
\* value in flight is parsed by one call with final = TRUE, exactly one
\* insertion is made, for that key (with the default value when no value
\* bytes were read).
C4_FinalCommitsInFlight ==
    \A f \in InFlight :
        (parsed /\ input = f.in /\ chunks = <<Len(input)>>)
            => insertions = <<f.out>>

(***************************************************************************)
(* The hash map (HashSpec).                                                *)
(***************************************************************************)
\* The positions in the log of the pairs whose key equals `key', the case
\* folded.
log_of(key) ==
    {i \in 1..Len(ht_log) : rspamd_strcase_equal(ht_log[i].key, key)}

\* C5 as stated: a lookup of k returns v for every pair (k, v) handed to
\* the insert function before, whatever was inserted after it.
C5_FindReturnsEveryInserted ==
    ht_last.op = "match" =>
        \A i \in 1..Len(ht_log) :
            ht_log[i].key = ht_last.key =>
                ht_last.found /\ ht_last.ret = ht_log[i].value

\* C5 amended: a lookup of k returns the value of the latest pair handed to
\* the insert function whose key equals k with the case folded, and none
\* when there is no such pair.
C5_FindReturnsLatestInserted ==
    ht_last.op = "match" =>
        LET is == log_of(ht_last.key)
        IN  IF is = {} THEN ~ht_last.found
            ELSE /\ ht_last.found
                 /\ ht_last.ret =
                      ht_log[CHOOSE i \in is : \A j \in is : j <= i].value

\* C5 witness: a lookup finds the value of a pair after which pairs of
\* another key, and before which a pair of the same key with another value,
\* were inserted.
C5_Witness ==
    /\ ht_last.op = "match"
    /\ ht_last.found
    /\ \E i, j \in log_of(ht_last.key) :
          i < j /\ ht_log[i].value # ht_log[j].value
    /\ ~rspamd_strcase_equal(ht_log[Len(ht_log)].key, ht_last.key)

\* C6: an insertion of a pair whose key is present with a byte-equal stored
\* value leaves the helper as it was: the slots, the records and their hit
\* counters, and the fingerprint state.
C6_DuplicateInsertIsNoOp ==
    ht_last.op = "insert" =>
        LET k == kh_get(ht_last.before.htb, ht_last.key)
        IN  (k # {} /\ \A e \in k : e.value = ht_last.value)
                => ht = ht_last.before

\* C6 witness: such an insertion has been made into a map whose record for
\* the key, stored under another spelling, had counted hits.
C6_Witness ==
    /\ ht_last.op = "insert"
    /\ \E e \in kh_get(ht_last.before.htb, ht_last.key) :
          /\ e.value = ht_last.value
          /\ e.key # ht_last.key
          /\ e.hits > 0
    /\ ht = ht_last.before

(***************************************************************************)
(* The digest (StreamSpec).                                                *)
(***************************************************************************)
\* The fingerprint state after the keys ks have been mixed in, in order.
RECURSIVE mix_keys(_, _)
mix_keys(st, ks) ==
    IF ks = <<>> THEN st
    ELSE mix_keys(rspamd_cryptobox_fast_hash_update(st, Head(ks)), Tail(ks))

\* No key of the stream equals an earlier one, the case folded.
no_repeated_key ==
    \A i, j \in 1..Len(st_keys) :
        i < j => ~rspamd_strcase_equal(st_keys[i], st_keys[j])

\* C7 as stated: two streams that hand over the same keys in the same order
\* publish the same digest, whatever their values.
C7_DigestOfKeysOnly ==
    st_fin.done => st_fin.A.digest = st_fin.B.digest

\* C7 amended: two streams that hand over the same keys in the same order,
\* none of them twice, publish the same digest whatever their values: the
\* digest of the keys mixed in that order.
C7_DigestOfDistinctKeys ==
    (st_fin.done /\ no_repeated_key) =>
        /\ st_fin.A.digest = st_fin.B.digest
        /\ st_fin.A.digest =
              rspamd_cryptobox_fast_hash_final(
                  mix_keys(rspamd_cryptobox_fast_hash_init(map_hash_seed),
                           st_keys))

\* C7 witness: two finalized streams of several distinct keys whose values
\* differ.
C7_Witness ==
    /\ st_fin.done
    /\ no_repeated_key
    /\ Len(st_keys) >= 2
    /\ \E a \in stA.htb : \E b \in stB.htb : a.key = b.key /\ a.value # b.value

(***************************************************************************)
(* The regexp map (RegexpSpec).                                            *)
(***************************************************************************)
\* The value of the record of pattern i.
value_of(i) == re_recs[re_map.values[i]].value

\* C8: a single-match query for an input that is not empty returns the
\* value of the earliest-inserted pattern that matches the input, on either
\* path, and none only when no pattern matches.
C8_SingleReturnsEarliestMatch ==
    (re_last.op = "single" /\ re_last.in # <<>>) =>
        LET m == matching(re_map, re_last.in)
        IN  IF m = {} THEN re_last.none
            ELSE /\ ~re_last.none
                 /\ re_last.ret =
                      <<value_of(CHOOSE i \in m : \A k \in m : i <= k)>>

\* C9 as stated: for any input, an all-matches query returns a list holding
\* the value of every pattern that matches, and NULL exactly when none does.
C9_AllReturnsEveryMatch ==
    re_last.op = "all" =>
        LET m == matching(re_map, re_last.in)
        IN  /\ re_last.none <=> m = {}
            /\ re_last.none <=> re_last.ret = <<>>
            /\ \A i \in m :
                  \E n \in 1..Len(re_last.ret) : re_last.ret[n] = value_of(i)

\* C9 amended: for any input that is not empty, an all-matches query
\* returns a list holding the value of every pattern that matches (as many
\* values as patterns match), and NULL exactly when none does; for the empty
\* input it returns NULL.
C9_AllReturnsEveryMatchNonEmpty ==
    re_last.op = "all" =>
        LET m == matching(re_map, re_last.in)
        IN  IF re_last.in = <<>> THEN re_last.none /\ re_last.ret = <<>>
            ELSE /\ re_last.none <=> m = {}
                 /\ re_last.none <=> re_last.ret = <<>>
                 /\ Len(re_last.ret) = Cardinality(m)
                 /\ \A i \in m :
                       \E n \in 1..Len(re_last.ret) :
                           re_last.ret[n] = value_of(i)

\* C9 witness: an all-matches query has returned two different values on the
\* multi-pattern path.
C9_Witness ==
    /\ re_last.op = "all"
    /\ re_last.path = "hs"
    /\ Len(re_last.ret) = 2
    /\ re_last.ret[1] # re_last.ret[2]

(***************************************************************************)
(* The radix map (RadixSpec).                                              *)
(***************************************************************************)
\* The positions in the log of the inserted prefixes that contain address a.
containing(a) == {i \in 1..Len(rx_log) : contains(rx_log[i].prefix, a)}

\* C10: a lookup of address A returns a value attached to the longest
\* inserted prefix that contains A, and none when no inserted prefix
\* contains A.
C10_LongestPrefixMatch ==
    rx_last.op = "match" =>
        LET c == containing(rx_last.in)
        IN  IF c = {} THEN rx_last.none
            ELSE /\ ~rx_last.none
                 /\ \E i \in c :
                       /\ \A k \in c :
                             Len(rx_log[k].prefix) <= Len(rx_log[i].prefix)
                       /\ rx_last.ret = rx_log[i].value

\* C10 for the scenario of the claim: with 100/1 -> x and 101 -> y inserted
\* (10.0.0.0/8 -> red and 10.1.2.3 -> blue), 101 gives y, 110 gives x and
\* 011 gives none.
C10_Scenario ==
    (/\ rx_last.op = "match"
     /\ rx_log = << [prefix |-> <<"1">>, value |-> <<"x">>],
                    [prefix |-> <<"1", "0", "1">>, value |-> <<"y">>] >>) =>
        /\ rx_last.in = <<"1", "0", "1">> => rx_last.ret = <<"y">>
        /\ rx_last.in = <<"1", "1", "0">> => rx_last.ret = <<"x">>
        /\ rx_last.in = <<"0", "1", "1">> => rx_last.none

\* C10, both parts.
C10_RadixLookup == C10_LongestPrefixMatch /\ C10_Scenario

\* C10 witness: a lookup has returned the value of the longer of two
\* inserted prefixes that contain the address, and the shorter one carries
\* another value.
C10_Witness ==
    /\ rx_last.op = "match"
    /\ ~rx_last.none
    /\ \E i, k \in containing(rx_last.in) :
          /\ Len(rx_log[k].prefix) < Len(rx_log[i].prefix)
          /\ rx_log[k].value # rx_log[i].value
          /\ rx_last.ret = rx_log[i].value

(***************************************************************************)
(* The generations of a map (GenSpec).                                     *)
(***************************************************************************)
\* C11: a finalize routine called with a prior generation destroys it if and
\* only if a new generation is installed in the target in that step; with
\* no index in flight or no target the prior generation is not destroyed.
C11_PriorDestroyedIffInstalled ==
    (gen_last.op = "fin" /\ gen_last.prev # NULL) =>
        (gen_last.destroyed <=> gen_last.installed)

\* A live index other than the one in flight, as it was before the abort.
untouched(i) == gens[i] = gen_last.gens[i]

\* C12: when a stream with at least one read call is abandoned, the abort
\* destructor destroys the index in flight only: the published pointer, and
\* every other index with its pool and hit counters, are as before.
C12_AbortDropsOnlyInFlight ==
    (gen_last.op = "dtor" /\ gen_last.reads >= 1) =>
        /\ target = gen_last.target
        /\ ~gens[gen_last.cur].pool
        /\ \A i \in 1..Len(gens) : i # gen_last.cur => untouched(i)

\* C12 witness: a stream has been abandoned while a live index that has
\* counted hits is published; the index in flight is gone.
C12_Witness ==
    /\ gen_last.op = "dtor"
    /\ gen_last.reads >= 1
    /\ target # NULL
    /\ gens[target].pool
    /\ gens[target].hits > 0
    /\ gen_last.gens[gen_last.cur].pool
    /\ ~gens[gen_last.cur].pool

(***************************************************************************)
(* Slab chains and bump allocation (AllocSpec).                            *)
(***************************************************************************)
\* The bytes handed out by the pool, whatever they came from.
handed_total ==
    handed["NORMAL"] + handed["TMP"] + handed["SHARED"] + handed["trash"]

\* The sizes of the slabs the pool owns.
slabs_total ==
    chain_size(apool.pools["NORMAL"]) + chain_size(apool.pools["TMP"])
        + chain_size(apool.pools["SHARED"])

\* C13: in every allocation mode the bytes handed out by the pool, all
\* classes together, are at most the total size of the slabs it owns.
C13_HandedOutWithinSlabs == handed_total <= slabs_total

\* C13, amended: the bytes handed out from the slabs of a class (every
\* request when always-malloc is off, the SHARED ones when it is on) are at
\* most the total size of the slabs of that class; in always-malloc mode
\* the other requests are served by the system allocator and kept on the
\* trash stack.
C13_HandedOutFromSlabsWithinSlabs ==
    /\ \A t \in ChainTypes : handed[t] <= chain_size(apool.pools[t])
    /\ handed["trash"] > 0 => aenv.always_malloc
    /\ aenv.always_malloc => handed["NORMAL"] = 0 /\ handed["TMP"] = 0

\* C13 witness: a class has two slabs, one of them for an oversized request,
\* and bytes have been handed out from them.
C13_Witness ==
    \E t \in ChainTypes :
        /\ Len(apool.pools[t]) >= 2
        /\ astat.oversized_chunks > 0
        /\ handed[t] >= 13

\* C14: for every slab of the pool, after any sequence of allocations,
\* base <= cursor <= base + slab_size.
C14_CursorWithinSlab ==
    \A t \in ChainTypes : \A i \in 1..Len(apool.pools[t]) :
        LET chain == apool.pools[t][i]
        IN  chain.begin <= chain.pos
            /\ chain.pos <= chain.begin + chain.slice_size

\* The parts of a pool that rspamd_mempool_cleanup_tmp leaves alone.
frame_of(pool) ==
    [normal |-> pool.pools["NORMAL"], shared |-> pool.pools["SHARED"],
     destructors |-> pool.destructors, variables |-> pool.variables,
     invoked |-> pool.invoked, trash_stack |-> pool.trash_stack,
     elt_len |-> pool.elt_len]

\* C18, first part: cleanup_tmp releases every TMP slab and leaves the
\* NORMAL and SHARED chains with their cursors, the destructor queue and
\* the variable dictionary as they were, and runs no destructor.
C18_CleanupFrame ==
    a_last.op = "cleanup_tmp" =>
        /\ apool.pools["TMP"] = <<>>
        /\ frame_of(apool) = frame_of(a_last.pool)

\* C18, second part, as claimed: a TMP allocation after cleanup_tmp starts a
\* fresh slab.
C18_FreshSlabAfterCleanup ==
    (/\ a_last.op = "alloc" /\ a_last.type = "TMP"
     /\ astat.pools_freed > 0 /\ a_last.pool.pools["TMP"] = <<>>) =>
        a_last.fresh /\ Len(apool.pools["TMP"]) = 1

\* C18 as claimed.
C18_CleanupTmpOnly == C18_CleanupFrame /\ C18_FreshSlabAfterCleanup

\* C18, amended: the frame as claimed; a TMP allocation after cleanup_tmp
\* starts a fresh slab unless the always-malloc mode is set, in which case
\* it is served by the system allocator.
C18_CleanupTmpOnlySlabMode ==
    /\ C18_CleanupFrame
    /\ ~aenv.always_malloc => C18_FreshSlabAfterCleanup
    /\ (aenv.always_malloc /\ a_last.op = "alloc" /\ a_last.type = "TMP") =>
           ~a_last.slab

\* C18 witness: cleanup_tmp has released a TMP slab of a pool that has a
\* NORMAL slab with bytes handed out.
C18_Witness ==
    /\ a_last.op = "cleanup_tmp"
    /\ a_last.pool.pools["TMP"] # <<>>
    /\ apool.pools["NORMAL"] # <<>>
    /\ handed["NORMAL"] > 0

(***************************************************************************)
(* The entry-point statistics (EntrySpec).                                 *)
(***************************************************************************)
\* C15: from the creation of an entry-point row on, across pool deletions
\* and adjustments with any observations, its slab-size suggestion lies in
\* [1024, 10 * 1024 * 1024].
C15_SuggestionWithinLimits ==
    /\ entry.cur_suggestion >= 1024
    /\ entry.cur_suggestion <= 10 * 1024 * 1024

\* C15 witness: the row has been adjusted twice; the last adjustment left a
\* value out of the limits before they were applied.
C15_Witness ==
    /\ e_last.op = "adjust"
    /\ e_last.adjusts = 2
    /\ e_last.raw > 10 * 1024 * 1024
    /\ entry.cur_suggestion = 10 * 1024 * 1024

(***************************************************************************)
(* The emulated mutex (MutexSpec, and MutexLiveSpec with a fair            *)
(* scheduler: a live process that can take a step eventually takes one).   *)
(***************************************************************************)
MutexLiveSpec ==
    MutexSpecInit /\ [][MutexSpecNext]_vars
        /\ \A p \in Pids : WF_vars(proc_step(p) /\ UNCHANGED
               <<poolVars, parserVars, hashVars, streamVars, reVars,
                 radixVars, genVars, allocVars, entryVars, rwVars,
                 nullVars, varVars>>)

\* A process has died with the lock taken and not given back.
holder_died == mtx.lock = 1 /\ malive # Pids /\ \A p \in malive :
                   mpc[p] \notin {"owner", "held", "unlock"}

\* C16: when the process holding the mutex has died without unlocking, a
\* live process that has called lock_mutex eventually returns holding it.
C16_DeadHolderLockTakenOver ==
    \A p \in Pids :
        (holder_died /\ p \in malive /\ mpc[p] = "spin") ~> (mpc[p] = "held")

(***************************************************************************)
(* The emulated rwlock (RwSpec).                                           *)
(***************************************************************************)
\* C17: from the return of wlock_rwlock until wunlock_rwlock no process is
\* inside a read section: a writer and a reader never hold the lock at the
\* same time.
C17_WriterExcludesReaders ==
    \A p, q \in RwPids : ~(rwpc[p] = "writing" /\ rwpc[q] = "reading")

(***************************************************************************)
(* The guards of the queries (QuerySpec): a regexp map that is filled,     *)
(* finalised and queried, and the query functions called with a null       *)
(* pointer.                                                                *)
(***************************************************************************)
QuerySpecNext == RegexpSpecNext \/ NullCallSpecNext

QuerySpec == RegexpSpecInit /\ [][QuerySpecNext]_vars

\* The step is a regexp query with the empty input or against a finalised
\* map that holds no pattern.
guarded_regexp_query ==
    /\ re_last' # re_last
    /\ re_last'.op \in {"single", "all"}
    /\ re_last'.in = <<>> \/ re_map.regexps = <<>>

\* C19: a query against a null index, a regexp query with the empty input
\* (length 0) and a regexp query against a map with no patterns return none
\* without failing, and change no hit counter.
C19_GuardedQueriesReturnNone ==
    [][/\ nq_last' # nq_last =>
             ~nq_last'.failed /\ nq_last'.none /\ re_recs' = re_recs
       /\ guarded_regexp_query => re_last'.none /\ re_recs' = re_recs]_vars

(***************************************************************************)
(* The keys handed to the insert callback (ParserSpec).                    *)
(***************************************************************************)
\* C20: the parser never hands the insert callback an empty key: a line
\* whose key is empty (an empty quoted key "" included) or ill-formed
\* produces no insertion.
C20_NoEmptyKeyInserted ==
    \A i \in 1..Len(insertions) : insertions[i].key # <<>>

(***************************************************************************)
(* The value handed to the insert callback (ParserSpec).  The first line   *)
(* of the input is looked at when it starts with a plain key, a run of the *)
(* letter a that ends at white space, at a comment or with the input.      *)
(***************************************************************************)
\* The number of letters a at the front of s.
RECURSIVE run_of_a(_)
run_of_a(s) ==
    IF s = <<>> \/ Head(s) # "a" THEN 0 ELSE 1 + run_of_a(Tail(s))

\* The bytes of s in front of the first byte that belongs to stops.
RECURSIVE up_to(_, _)
up_to(s, stops) ==
    IF s = <<>> \/ Head(s) \in stops THEN <<>>
    ELSE <<Head(s)>> \o up_to(Tail(s), stops)

plain_key_line ==
    LET n == run_of_a(input)
    IN  /\ n > 0
        /\ n < Len(input) => g_ascii_isspace(input[n + 1]) \/ input[n + 1] = "#"

\* What follows the key on the first line, the comment left out.
first_line_value ==
    LET n == run_of_a(input)
        line == up_to(SubSeq(input, n + 1, Len(input)), {"\r", "\n"})
    IN  g_strstrip(up_to(line, {"#"}))

\* C21: an accepted key whose line carries no value (nothing, white space of
\* any kind only, or a comment only) is inserted with the default value;
\* otherwise it is inserted with the value bytes, trimmed and without the
\* comment.
C21_DefaultOrTrimmedValue ==
    (parsed /\ chunks = <<Len(input)>> /\ plain_key_line /\ insertions # <<>>) =>
        insertions[1] =
            kv(SubSeq(input, 1, run_of_a(input)),
               IF first_line_value = <<>> THEN default_value
               ELSE first_line_value)

(***************************************************************************)
(* Fresh slabs (AllocSpec).                                                *)
(***************************************************************************)
\* The head slab of the class cannot serve size bytes, or there is none.
cannot_satisfy(pool, t, size) ==
    pool.pools[t] = <<>> \/ pool_chain_free(pool.pools[t][1]) < size

\* The size rspamd_mempool_chain_new was asked for when it made the slab.
requested(chain) == chain.slice_size - MIN_MEM_ALIGNMENT

Max(a, b) == IF a >= b THEN a ELSE b

\* The last request was served from a new slab put in front of the chain.
served_from_new_head ==
    LET t == a_last.type
        head == apool.pools[t][1]
    IN  /\ a_last.slab
        /\ apool.pools[t] # <<>>
        /\ Tail(apool.pools[t]) = a_last.pool.pools[t]
        /\ head.begin <= a_last.tmp
        /\ head.pos = a_last.tmp + a_last.size
        /\ head.pos <= head.begin + head.slice_size

\* C22 as stated: whenever the head slab of a class cannot satisfy a request
\* of size bytes (or the class has no slab), the new slab is requested with
\* backing size max(elt_len, size + elt_len), is prepended to the chain, and
\* the request is served from it.
C22_FreshSlabSize ==
    (a_last.op = "alloc"
        /\ cannot_satisfy(a_last.pool, a_last.type, a_last.size)) =>
        /\ served_from_new_head
        /\ requested(apool.pools[a_last.type][1]) =
              Max(apool.elt_len, a_last.size + apool.elt_len)

\* C22, amended: whenever the head slab of a class cannot satisfy a request
\* of size bytes (or the class has no slab) and the request goes to the
\* slabs (always-malloc is off, or the class is SHARED), the new slab is
\* requested with elt_len when elt_len >= size + MIN_MEM_ALIGNMENT and with
\* size + elt_len otherwise, is prepended to the chain, and the request is
\* served from it.
C22_FreshSlabSizeByFit ==
    (a_last.op = "alloc"
        /\ (~aenv.always_malloc \/ a_last.type = "SHARED")
        /\ cannot_satisfy(a_last.pool, a_last.type, a_last.size)) =>
        /\ served_from_new_head
        /\ requested(apool.pools[a_last.type][1]) =
              IF apool.elt_len >= a_last.size + MIN_MEM_ALIGNMENT
              THEN apool.elt_len
              ELSE a_last.size + apool.elt_len

\* C22 witness: a head slab with too few free bytes has been replaced as
\* head by a slab made for an oversized request.
C22_Witness ==
    /\ a_last.op = "alloc"
    /\ a_last.pool.pools[a_last.type] # <<>>
    /\ cannot_satisfy(a_last.pool, a_last.type, a_last.size)
    /\ a_last.fresh
    /\ apool.elt_len < a_last.size + MIN_MEM_ALIGNMENT
    /\ Len(apool.pools[a_last.type]) = 2

\* The free bytes of the head slab of class t, none when there is no slab.
departing_free(t) ==
    IF apool.pools[t] = <<>> THEN 0 ELSE pool_chain_free(apool.pools[t][1])

\* C23: on every fresh-slab event of a pool, the number of free bytes that
\* remain in the departing head slab is what is added to the fragmentation
\* of the current slot of the pool's entry-point row.
C23_FragmentationIsDepartingFree ==
    [][(handed'["n"] # handed["n"] /\ a_last'.fresh) =>
          astat'.fragmentation =
              astat.fragmentation + departing_free(a_last'.type)]_vars

(***************************************************************************)
(* The ring of an entry-point row (EntrySpec).                             *)
(***************************************************************************)
\* The step is the deletion of a pool.
pool_deleted == entry' # entry \/ e_last' # e_last

\* The deletion has recorded one observation in the row, advanced the ring
\* cursor by one modulo 64 and adjusted the row exactly when the cursor
\* wrapped to 0, which left all the slots zero.
recorded_and_advanced ==
    /\ entry'.cur_elts = (entry.cur_elts + 1) % ENTRY_NELTS
    /\ e_last'.op = "adjust" <=> entry'.cur_elts = 0
    /\ IF entry'.cur_elts = 0
       THEN \A o \in DOMAIN entry'.elts : entry'.elts[o] = 0
       ELSE /\ entry'.cur_suggestion = entry.cur_suggestion
            /\ \E o \in entry_obs :
                  entry'.elts = [entry.elts EXCEPT ![o] = @ + 1]

matches(q, func, data) ==
    {i \in 1..Len(q) : q[i].func = func /\ q[i].data = data}

\* The queue after the step differs from the queue before it at most in the
\* data of the first entry equal to (func, old_data), which is new_data.
first_match_rewritten(func, old_data, new_data) ==
    LET m == matches(destructors, func, old_data)
    IN  /\ Len(destructors') = Len(destructors)
        /\ \A i \in 1..Len(destructors) :
              IF i \in m /\ \A j \in m : i <= j
              THEN destructors'[i] =
                       [destructors[i] EXCEPT !.data = new_data]
              ELSE destructors'[i] = destructors[i]
        /\ invoked' = invoked
        /\ pool_alive' = pool_alive

\* C25: replace_destructor (fn, old_data, new_data) changes the data of the
\* first queue entry equal to (fn, old_data) only, leaving the length of the
\* queue, the order and every other entry as they were, and does nothing
\* when no entry matches; at teardown fn runs on new_data, and not on
\* old_data, for that entry (an entry whose data is null is not called).
C25_ReplaceRewritesFirstMatch ==
    /\ [][\A func \in DtorFuncs, old_data \in DtorData, new_data \in DtorData :
             rspamd_mempool_replace_destructor(func, old_data, new_data) =>
                 first_match_rewritten(func, old_data, new_data)]_vars
    /\ [](\A k \in 1..Len(invoked) :
             /\ invoked[k].entry = registered[invoked[k].entry.id]
             /\ (invoked[k].entry.id = replaced.id =>
                    invoked[k].entry.data = replaced.new_data))
    /\ [](~pool_alive =>
             \A i \in 1..Len(registered) :
                 registered[i].data # NULL =>
                     \E k \in 1..Len(invoked) : invoked[k].entry = registered[i])

\* C25 witness: the pool has been deleted and the destructor of an entry
\* whose data had been replaced by other data has run on the new data, while
\* another entry still held the old data.
C25_Witness ==
    /\ ~pool_alive
    /\ replaced.id # 0
    /\ replaced.old_data # replaced.new_data
    /\ \E k \in 1..Len(invoked) :
          /\ invoked[k].by = "delete"
          /\ invoked[k].entry.id = replaced.id
          /\ invoked[k].entry.data = replaced.new_data
    /\ \E i \in 1..Len(registered) :
          /\ i > replaced.id
          /\ registered[i].func = registered[replaced.id].func
          /\ registered[i].data = replaced.old_data

(***************************************************************************)
(* The variables of a pool (VarSpec).                                      *)
(***************************************************************************)
\* The value the calls so far have left for a name: that of the last
\* set_variable not followed by a remove_variable, NULL when there is none.
RECURSIVE latest_value(_, _)
latest_value(calls, name) ==
    IF calls = <<>> THEN NULL
    ELSE LET c == calls[Len(calls)]
         IN  IF c.name = name
             THEN (IF c.op = "set" THEN c.value ELSE NULL)
             ELSE latest_value(SubSeq(calls, 1, Len(calls) - 1), name)

\* The (dtor, value) entries of the calls of set_variable with a destructor.
RECURSIVE entries_of(_)
entries_of(calls) ==
    IF calls = <<>> THEN <<>>
    ELSE (IF Head(calls).op = "set" /\ Head(calls).dtor # "none"
          THEN <<[func |-> Head(calls).dtor, data |-> Head(calls).value]>>
          ELSE <<>>) \o entries_of(Tail(calls))

\* How many times the destructors have been called on a value.
destroyed(value) ==
    Cardinality({k \in 1..Len(v_invoked) : v_invoked[k].data = value})

\* get_variable returns the most recently set value of the name, NULL when
\* it was never set or has been removed; every set_variable with a
\* destructor has appended one (dtor, value) entry to the queue.
C26_GetAndQueue ==
    /\ v_last.op = "get" => v_last.ret = latest_value(v_calls, v_last.name)
    /\ vpool.alive => vpool.destructors = entries_of(v_calls)

\* C26 as stated: get_variable returns the most recently set value, each
\* set_variable with a destructor appends exactly one (dtor, value) entry,
\* so that each stored value is destroyed exactly once at teardown.
C26_StoredValueDestroyedOnce ==
    /\ C26_GetAndQueue
    /\ v_last.op = "delete" =>
          \A i \in 1..Len(v_calls) :
              (v_calls[i].op = "set" /\ v_calls[i].dtor # "none") =>
                  destroyed(v_calls[i].value) = 1

\* C26, amended: get_variable returns the most recently set value, each
\* set_variable with a destructor appends exactly one (dtor, value) entry,
\* so that at teardown the destructor is called once for every such call
\* whose value is not null, in the order of the calls: a value handed to
\* several such calls is destroyed as many times, and a null value is not
\* destroyed.
C26_DestroyedOncePerCall ==
    /\ C26_GetAndQueue
    /\ v_last.op = "delete" =>
          /\ v_invoked = call_destructors(entries_of(v_calls))
          /\ \A value \in VarValues \ {NULL} :
                destroyed(value) =
                    Cardinality({i \in 1..Len(v_calls) :
                                    /\ v_calls[i].op = "set"
                                    /\ v_calls[i].dtor # "none"
                                    /\ v_calls[i].value = value})
          /\ destroyed(NULL) = 0

\* C26 witness: a name was set twice, with two values and a destructor each
\* time, and both values were destroyed once at teardown.
C26_Witness ==
    /\ v_last.op = "delete"
    /\ \E i, j \in 1..Len(v_calls) :
          /\ i < j
          /\ v_calls[i].op = "set" /\ v_calls[j].op = "set"
          /\ v_calls[i].name = v_calls[j].name
          /\ v_calls[i].dtor # "none" /\ v_calls[j].dtor # "none"
          /\ v_calls[i].value # NULL /\ v_calls[j].value # NULL
          /\ v_calls[i].value # v_calls[j].value
    /\ destroyed(1) = 1
    /\ destroyed(2) = 1

(***************************************************************************)
(* Keys that do not compile (RegexpSpec).                                  *)
(***************************************************************************)
\* The key, or the regexp made from it as a glob, compiles.
compiles(key) ==
    IF "GLOB" \in re_map.map_flags
    THEN rspamd_regexp_new(rspamd_str_regexp_escape(key)).ok
    ELSE rspamd_regexp_new(key).ok

\* C27: when a key does not compile as a regexp (or as the regexp made from
\* a glob), rspamd_map_helper_insert_re leaves the map as it was: no pattern
\* and no record is appended, and the key set, the fingerprint and the map
\* flags do not change; the entries that follow in the stream are still
\* inserted.
C27_FailedCompileLeavesMap ==
    [][\A key \in RegexpKeys, value \in RegexpValues :
          insert_re(key, value) =>
              IF compiles(key)
              THEN /\ Len(re_map'.regexps) = Len(re_map.regexps) + 1
                   /\ Len(re_map'.values) = Len(re_map.values) + 1
                   /\ Len(re_recs') = Len(re_recs) + 1
                   /\ re_recs'[Len(re_recs')].value = value
                   /\ \E e \in re_map'.htb : e.key = key
              ELSE re_map' = re_map /\ re_recs' = re_recs]_vars

\* C27 witness: a key that does not compile was skipped, and the key that
\* followed it in the stream is in the map.
C27_Witness ==
    /\ re_last.op = "insert"
    /\ re_last.ok
    /\ re_last.after_skip
    /\ Len(re_map.regexps) = 1
    /\ \E e \in re_map.htb : e.key = re_last.key

(***************************************************************************)
(* Input that is not valid UTF-8 (RegexpSpec).                             *)
(***************************************************************************)
\* The positions of regexps[] in increasing order.
RECURSIVE ascending(_)
ascending(ids) ==
    IF ids = {} THEN <<>>
    ELSE LET least == CHOOSE i \in ids : \A j \in ids : i <= j
         IN  <<least>> \o ascending(ids \ {least})

\* What the per-pattern fallback returns for the last query: the values of
\* the patterns that match, in insertion order; the first of them for
\* match_single.
fallback_result ==
    LET every == values_of(ascending(matching(re_map, re_last.in)))
    IN  IF re_last.op = "single" /\ every # <<>> THEN <<every[1]>> ELSE every

\* The last step was a query that looked at the validity of its input.
query_answered ==
    /\ re_last.op \in {"single", "all"}
    /\ re_last.path # "guard"

\* C28: when the regexp map has the UTF flag and the input is not valid
\* UTF-8, match_single and match_all do not use the multi-pattern database;
\* both run the per-pattern fallback in insertion order with the raw flag
\* set and return its result; when the input is valid or the map is not UTF
\* the fallback runs with the raw flag clear.
C28_InvalidUtfTakesRawFallback ==
    query_answered =>
        IF "UTF" \in re_map.map_flags /\ ~g_utf8_validate(re_last.in)
        THEN /\ re_last.path = "pcre"
             /\ re_last.raw
             /\ re_last.ret = fallback_result
             /\ re_last.none = (fallback_result = <<>>)
        ELSE re_last.path = "pcre" => ~re_last.raw

\* C28 witness: a UTF map with a compiled database was asked for every match
\* of an input that is not valid UTF-8, and the fallback found one.
C28_Witness ==
    /\ re_last.op = "all"
    /\ "UTF" \in re_map.map_flags
    /\ re_map.hs_db /\ re_map.hs_scratch
    /\ ~g_utf8_validate(re_last.in)
    /\ re_last.path = "pcre"
    /\ re_last.raw
    /\ re_last.ret # <<>>

(***************************************************************************)
(* The database after rspamd_re_map_finalize (RegexpSpec).                 *)
(***************************************************************************)
\* Finalisation with an outcome that gives no usable database: no SSSE3, no
\* pattern, hs_compile_multi fails, or hs_alloc_scratch fails.
finalized_without_db ==
    \E ssse3, compile_ok, scratch_ok \in BOOLEAN :
        /\ rspamd_regexp_list_fin(ssse3, compile_ok, scratch_ok)
        /\ \/ ~ssse3
           \/ Len(re_map.regexps) = 0
           \/ ~compile_ok \/ ~hs_compilable(re_map.regexps)
           \/ ~scratch_ok

holders == {p \in malive : mpc[p] = "held"}

\* C30: under every interleaving of the processes, also after a holder has
\* died and its lock has been taken over, at most one live process at a time
\* is between a returned rspamd_mempool_lock_mutex and its
\* rspamd_mempool_unlock_mutex.
C30_AtMostOneHolder == Cardinality(holders) <= 1

(***************************************************************************)
(* The emulated rwlock with a fair scheduler (RwLiveSpec): process 1 takes *)
(* and gives back read locks and may die inside its read section, process *)
(* 2 takes and gives back the write lock; a live process that can take a   *)
(* step eventually takes one.                                              *)
(***************************************************************************)
rw_others ==
    <<poolVars, parserVars, hashVars, streamVars, reVars, radixVars, genVars,
      allocVars, entryVars, mutexVars, nullVars, varVars>>

RwLiveNext ==
    /\ reader_step(1) \/ rw_die(1) \/ writer_step(2)
    /\ UNCHANGED rw_others

RwLiveSpec ==
    RwSpecInit /\ [][RwLiveNext]_vars
        /\ WF_vars(reader_step(1) /\ UNCHANGED rw_others)
        /\ WF_vars(writer_step(2) /\ UNCHANGED rw_others)

\* A process has died inside its read section: the reader counter stays
\* above zero.
reader_died ==
    /\ rwl.r.lock > 0
    /\ \E q \in RwPids : rwpc[q] = "dead"
    /\ \A q \in RwPids : rwpc[q] \notin {"r_inc", "reading"}

\* C31: if a process dies while it holds a read lock (the reader counter is
\* left above zero), a writer that calls wlock_rwlock eventually returns
\* with the write lock and does not spin on the reader counter for ever.
C31_WriterPassesDeadReader ==
    \A p \in RwPids :
        (reader_died /\ rwpc[p] \in {"w_spin", "w_owner", "w_wait"})
            ~> (rwpc[p] = "writing")

(***************************************************************************)
(* The assertions of the parser (ParserSpec).                              *)
(***************************************************************************)
\* The 12 states of the enum of rspamd_parse_kv_list.
ParserStates ==
    {"map_skip_spaces_before_key", "map_read_key", "map_read_key_quoted",
     "map_read_key_slashed", "map_skip_spaces_after_key",
     "map_backslash_quoted", "map_backslash_slashed",
     "map_read_key_after_slash", "map_read_value", "map_read_comment_start",
     "map_skip_comment", "map_read_eol"}

\* C32: for every input, every split into chunks and every sequence of calls
\* that starts in map_skip_spaces_before_key, the caller carrying the
\* returned tail forward, rspamd_parse_kv_list reaches no assertion failure
\* (map_read_comment_start is only processed at a `#'), data->state stays
\* one of the 12 states, and the returned pointer lies within the chunk, its
\* end included.
C32_NoAssertionTailInChunk ==
    /\ ~p_ret.abort
    /\ pstate \in ParserStates
    /\ p_ret.c \in 1..(p_ret.len + 1)
    /\ Len(tail) = p_ret.len + 1 - p_ret.c

\* C32 witness: the input came in more than one chunk, the last call took a
\* tail over from the call before it, and ended just behind a `#' that
\* map_read_comment_start has processed.
C32_Witness ==
    /\ Len(chunks) >= 2
    /\ p_ret.len > chunks[Len(chunks)]
    /\ delivered < Len(input)
    /\ input[delivered] = "#"
    /\ pstate = "map_skip_comment"

\* C33: across every sequence of read, finalize and abort-destructor calls
\* made by the loader, prev_data being the published index, the published
\* target never refers to an index whose pool has been destroyed: a query
\* issued between two calls sees a live index or null.
C33_PublishedIndexAlive == target # NULL => gens[target].pool

(***************************************************************************)
(* The hits seen by traverse (RegexpSpec).                                 *)
(***************************************************************************)
\* C34: every hit counted by a match call is visible to traverse: the hit
\* counts handed to the traverse callback sum to the number of values
\* returned by match calls since the index was built, also when the same key
\* text was inserted more than once, and the element count published by
\* finalize equals the number of entries traverse visits.
C34_TraverseSeesEveryHit ==
    LET calls == rspamd_map_helper_traverse_regexp(re_map, re_recs)
    IN  /\ sum_hits(calls) = re_hits(re_recs)
        /\ re_last.op = "fin" => re_last.nelts = Cardinality(calls)

(***************************************************************************)
(* The replacement of a value (HashSpec).                                  *)
(***************************************************************************)
\* The last step inserted a key that was present, with the case folded,
\* with another value.
value_replaced ==
    /\ ht_last.op = "insert"
    /\ \E e \in kh_get(ht_last.before.htb, ht_last.key) :
          e.value # ht_last.value

\* The spelling under which the key of the last step was first inserted.
first_spelling ==
    LET is == log_of(ht_last.key)
    IN  ht_log[CHOOSE i \in is : \A j \in is : i <= j].key

\* C35: the insertion into a hash map of a key that equals a present key
\* with the case folded but carries another value replaces the value in
\* place: the number of entries does not change, the first spelling of the
\* key stays the stored key, a find under any spelling returns the new
\* value, the hit counter of the entry restarts at 0, and the stored key is
\* mixed into the fingerprint once more.
C35_ReplaceValueInPlace ==
    value_replaced =>
        LET old == kh_get(ht_last.before.htb, ht_last.key)
            new == kh_get(ht.htb, ht_last.key)
        IN  /\ Cardinality(ht.htb) = Cardinality(ht_last.before.htb)
            /\ ht.htb \ new = ht_last.before.htb \ old
            /\ new = {[key |-> first_spelling, hits |-> 0,
                       value |-> ht_last.value]}
            /\ \A in \in HashKeys :
                  rspamd_strcase_equal(in, ht_last.key) =>
                      kh_get(ht.htb, in) = new
            /\ ht.hst = rspamd_cryptobox_fast_hash_update(ht_last.before.hst,
                                                          first_spelling)

\* C35 witness: the value of an entry that had counted hits was replaced by
\* an insertion that spelled the key in another way.
C35_Witness ==
    /\ value_replaced
    /\ \E e \in kh_get(ht_last.before.htb, ht_last.key) :
          e.key # ht_last.key /\ e.hits > 0

(***************************************************************************)
(* The regions handed out (AllocSpec).                                     *)
(***************************************************************************)
\* The slab of class t a region was taken from; the slabs of a chain are
\* numbered in the order of their creation, the head being the last.
slab_of(t, region) ==
    apool.pools[t][Len(apool.pools[t]) - region.slab + 1]

\* The region lies inside the bytes of its slab.
inside_slab(t, region) ==
    /\ region.slab \in 1..Len(apool.pools[t])
    /\ slab_of(t, region).begin <= region.tmp
    /\ region.tmp + region.size
           <= slab_of(t, region).begin + slab_of(t, region).slice_size

\* Two regions share no byte.
disjoint(r1, r2) ==
    r1.tmp + r1.size <= r2.tmp \/ r2.tmp + r2.size <= r1.tmp

\* C36: within one pool the regions returned from the slabs by any sequence
\* of allocations of any sizes and classes are pairwise disjoint and each
\* lies wholly inside one slab owned by the pool, until rspamd_mempool_delete
\* (or rspamd_mempool_cleanup_tmp for the TMP regions).
C36_RegionsDisjointInsideSlabs ==
    \A t \in ChainTypes :
        LET regions == a_hist.regions[t]
        IN  \A i \in 1..Len(regions) :
                /\ inside_slab(t, regions[i])
                /\ \A j \in 1..Len(regions) :
                      (i # j /\ regions[i].slab = regions[j].slab) =>
                          disjoint(regions[i], regions[j])

\* C37: after any sequence of rspamd_mempool_new, allocations,
\* rspamd_mempool_cleanup_tmp and rspamd_mempool_delete the global counter
\* pools_freed equals the number of rspamd_mempool_delete calls performed
\* and never exceeds pools_allocated.
C37_PoolsFreedCountsDeletes ==
    /\ astat.pools_freed = a_hist.deletes
    /\ astat.pools_freed <= astat.pools_allocated

(***************************************************************************)
(* The UID of a pool (AllocSpec).                                          *)
(***************************************************************************)
\* The hexadecimal characters.
HexChars == {hexdigits[i] : i \in 1..Len(hexdigits)}

\* The UID string of the pool rspamd_mempool_new_ has just returned.
new_uid == c_string(a_last.uid)

\* C38 as stated: every pool created by rspamd_mempool_new_ carries a UID
\* that is a string of exactly 20 hexadecimal characters.
C38_UidTwentyHexChars ==
    a_last.op = "new" =>
        /\ Len(new_uid) = 20
        /\ \A i \in 1..Len(new_uid) : new_uid[i] \in HexChars

\* C38 amended: every pool created by rspamd_mempool_new_ carries a UID that
\* is a string of exactly 19 hexadecimal characters, the twentieth character
\* of the field being the terminating zero byte.
C38_UidNineteenHexChars ==
    a_last.op = "new" =>
        /\ Len(new_uid) = 19
        /\ \A i \in 1..Len(new_uid) : new_uid[i] \in HexChars
        /\ a_last.uid[20] = NUL

\* A pool has been created from a buffer of distinct random bytes.
C38_Witness ==
    /\ a_last.op = "new"
    /\ apool # no_pool
    /\ new_uid[1] # new_uid[2]

====
